---- MODULE Spec2Model ----
(***************************************************************************)
(* A model of golibry/go-migrations: the migrations registry               *)
(* (migration/registry.go), the MySQL execution repository                 *)
(* (execution/repository/mysql.go) and the run engine that the            *)
(* specification describes on top of them.                                 *)
(*                                                                         *)
(* Versions are Go uint64 values.  TLC's integers are 32 bits wide, so a   *)
(* 64-bit word is kept as four 16-bit limbs, most significant first:       *)
(* <<0,0,0,5>> is 5 and <<32768,0,0,0>> is 2^63.  int and uint64 share the *)
(* word (two's complement), as they do in the Go build for 64-bit hosts.   *)
(* Strings are sequences of one-character strings.                         *)
(***************************************************************************)
EXTENDS Integers, Sequences, FiniteSets, TLC

\* ------------------------------------------------------------------ bounds
\* Registered versions range over 1..MaxVersion (as 64-bit words).
MaxVersion == 3

\* Versions of the execution records the repository calls are tried with: 1..MaxLedgerVersion.
MaxLedgerVersion == 2

\* Timestamps of those execution records: 1..MaxMs milliseconds.
MaxMs == 2

\* The directory-backed registry is tried with the versions 1..MaxDirVersion and 2^63.
MaxDirVersion == 2

\* The migrations directory holds at most MaxDirEntries entries.
MaxDirEntries == 3

\* ------------------------------------------------------- 64-bit machine words
LimbBase == 2^16

SignLimb == 2^15

Zero64 == <<0, 0, 0, 0>>

\* the word of a small natural number (n < 2^31)
U(n) == <<0, 0, n \div LimbBase, n % LimbBase>>

MinInt64 == <<SignLimb, 0, 0, 0>>

MaxUint64 == <<LimbBase - 1, LimbBase - 1, LimbBase - 1, LimbBase - 1>>

\* a < b for uint64 words
U64Less(a, b) ==
    \E i \in 1..4 : /\ a[i] < b[i]
                    /\ \A j \in 1..(i - 1) : a[j] = b[j]

\* w * 10 + d in 64 bits, with the carry out of the top limb
MulAdd10(w, d) ==
    LET t4 == w[4] * 10 + d
        t3 == w[3] * 10 + (t4 \div LimbBase)
        t2 == w[2] * 10 + (t3 \div LimbBase)
        t1 == w[1] * 10 + (t2 \div LimbBase)
    IN  [word |-> <<t1 % LimbBase, t2 % LimbBase, t3 % LimbBase, t4 % LimbBase>>,
         carry |-> t1 \div LimbBase]

\* w \div 10 and w % 10
DivMod10(w) ==
    LET c1 == w[1]
        c2 == (c1 % 10) * LimbBase + w[2]
        c3 == (c2 % 10) * LimbBase + w[3]
        c4 == (c3 % 10) * LimbBase + w[4]
    IN  [quot |-> <<c1 \div 10, c2 \div 10, c3 \div 10, c4 \div 10>>,
         rem |-> c4 % 10]

\* two's complement negation: (2^64 - w) % 2^64
Negate64(w) ==
    LET t4 == (LimbBase - 1 - w[4]) + 1
        t3 == (LimbBase - 1 - w[3]) + (t4 \div LimbBase)
        t2 == (LimbBase - 1 - w[2]) + (t3 \div LimbBase)
        t1 == (LimbBase - 1 - w[1]) + (t2 \div LimbBase)
    IN  <<t1 % LimbBase, t2 % LimbBase, t3 % LimbBase, t4 % LimbBase>>

\* the sign bit of the word read as an int
IsNegative64(w) == w[1] >= SignLimb

\* ------------------------------------------------------------------ strings
\* The characters the model's strings are made of, in ASCII order.
Alphabet ==
    <<"+", "-", ".", "0", "1", "2", "3", "4", "5", "6", "7", "8", "9", "_",
      "a", "b", "c", "d", "e", "f", "g", "h", "i", "j", "k", "l", "m", "n",
      "o", "p", "q", "r", "s", "t", "u", "v", "w", "x", "y", "z">>

Digits == <<"0", "1", "2", "3", "4", "5", "6", "7", "8", "9">>

Range(s) == {s[i] : i \in DOMAIN s}

CharRank(c) == CHOOSE i \in DOMAIN Alphabet : Alphabet[i] = c

IsDigit(c) == c \in Range(Digits)

DigitValue(c) == (CHOOSE i \in DOMAIN Digits : Digits[i] = c) - 1

\* byte-wise s < t, the order os.ReadDir returns names in
StrLess(s, t) ==
    \/ /\ Len(s) < Len(t)
       /\ \A i \in 1..Len(s) : s[i] = t[i]
    \/ \E i \in 1..Len(s) :
          /\ i <= Len(t)
          /\ CharRank(s[i]) < CharRank(t[i])
          /\ \A j \in 1..(i - 1) : s[j] = t[j]

\* strings.HasPrefix
HasPrefix(s, prefix) ==
    /\ Len(s) >= Len(prefix)
    /\ SubSeq(s, 1, Len(prefix)) = prefix

\* strings.TrimLeft: drops every leading character that is in cutset
RECURSIVE TrimLeft(_, _)
TrimLeft(s, cutset) ==
    IF s # <<>> /\ Head(s) \in Range(cutset) THEN TrimLeft(Tail(s), cutset) ELSE s

\* strings.TrimRight: drops every trailing character that is in cutset
RECURSIVE TrimRight(_, _)
TrimRight(s, cutset) ==
    IF s # <<>> /\ s[Len(s)] \in Range(cutset)
    THEN TrimRight(SubSeq(s, 1, Len(s) - 1), cutset)
    ELSE s

\* the decimal digits of a uint64 word, "" for 0
RECURSIVE DecimalDigits(_)
DecimalDigits(w) ==
    IF w = Zero64 THEN <<>>
    ELSE DecimalDigits(DivMod10(w).quot) \o <<Digits[DivMod10(w).rem + 1]>>

\* strconv.FormatUint(w, 10)
FormatUint(w) == IF w = Zero64 THEN <<"0">> ELSE DecimalDigits(w)

\* strconv.Itoa of the word read as an int
Itoa(w) == IF IsNegative64(w) THEN <<"-">> \o FormatUint(Negate64(w)) ELSE FormatUint(w)

\* strconv.ParseUint(digits, 10, 64): the magnitude, or a range error
RECURSIVE ParseDigits(_, _)
ParseDigits(digits, acc) ==
    IF digits = <<>> THEN [err |-> FALSE, word |-> acc]
    ELSE LET step == MulAdd10(acc, DigitValue(Head(digits)))
         IN  IF step.carry > 0 THEN [err |-> TRUE, word |-> MaxUint64]
             ELSE ParseDigits(Tail(digits), step.word)

\* strconv.Atoi: an optional sign and decimal digits, within the int range
Atoi(s) ==
    LET signed == s # <<>> /\ Head(s) \in {"+", "-"}
        neg == s # <<>> /\ Head(s) = "-"
        digits == IF signed THEN Tail(s) ELSE s
        mag == ParseDigits(digits, Zero64)
    IN  IF digits = <<>> \/ \E i \in DOMAIN digits : ~IsDigit(digits[i])
        THEN [err |-> TRUE, value |-> Zero64]
        ELSE IF mag.err
                \/ (~neg /\ ~U64Less(mag.word, MinInt64))
                \/ (neg /\ U64Less(MinInt64, mag.word))
        THEN [err |-> TRUE, value |-> Zero64]
        ELSE [err |-> FALSE, value |-> IF neg THEN Negate64(mag.word) ELSE mag.word]

\* ------------------------------------------------------------------- state
VARIABLES
    migrations,   \* GenericRegistry.migrations: version -> Migration
    registered,   \* history: the versions of the Register calls that returned nil, in call order
    dirReadable,  \* os.ReadDir on the migrations directory succeeds
    dirEntries,   \* the entries of the migrations directory: [name, isDir]
    tableExists,  \* the executions table has been created
    rows,         \* the rows of the executions table
    lastWrite,    \* history: per version, the last successful Save or Remove called on the handler since the table was created
    locks,        \* the lock files of the host: lock name -> the process holding the lock
    procs,        \* the processes of the host that run migrations exclusively or not
    run,          \* the run engine: its position in the current run and what the run did so far
    ret           \* the last call: its name, arguments, results and the state it started from

regVars == <<migrations, registered>>

dirVars == <<dirReadable, dirEntries>>

dbVars == <<tableExists, rows, lastWrite>>

runVars == <<run>>

guardVars == <<locks, procs>>

vars == <<migrations, registered, dirReadable, dirEntries, tableExists, rows, lastWrite,
          locks, procs, run, ret>>

\* --------------------------------------------------------------- migrations
\* A Migration value is a pointer to a user struct: two migrations may report the
\* same Version() and still be different objects (id).
MigrationIds == {"m1", "m2"}

Versions == {U(n) : n \in 1..MaxVersion}

Migrations == [id : MigrationIds, version : Versions]

\* the nil Migration that Get returns for an unknown version
NilMigration == [id |-> "nil"]

NoError == "nil"

ErrAlreadyRegistered == "failed to register new migration. The migration is already registered"

\* every order in which a Go map with key set S can be iterated
Orderings(S) ==
    {s \in [1..Cardinality(S) -> S] : \A i, j \in 1..Cardinality(S) : i # j => s[i] # s[j]}

\* ----------------------------------------------------------- GenericRegistry
NewGenericRegistry == <<>>

\* Register, overwriting an entry that is already there
RegisterOverwrite(migs, migration) ==
    [migrations |-> [v \in DOMAIN migs \cup {migration.version} |->
                        IF v = migration.version THEN migration ELSE migs[v]],
     err |-> NoError]

Register(migs, migration) ==
    IF migration.version \in DOMAIN migs
    THEN [migrations |-> migs, err |-> ErrAlreadyRegistered]
    ELSE [migrations |-> [v \in DOMAIN migs \cup {migration.version} |->
                             IF v = migration.version THEN migration ELSE migs[v]],
          err |-> NoError]

\* slices.Sort on []uint64: insertion into the sorted prefix
RECURSIVE InsertU64(_, _)
InsertU64(sorted, v) ==
    IF sorted = <<>> THEN <<v>>
    ELSE IF U64Less(v, Head(sorted)) THEN <<v>> \o sorted
    ELSE <<Head(sorted)>> \o InsertU64(Tail(sorted), v)

RECURSIVE SortU64(_)
SortU64(versions) ==
    IF versions = <<>> THEN <<>>
    ELSE InsertU64(SortU64(SubSeq(versions, 1, Len(versions) - 1)), versions[Len(versions)])

\* OrderedVersions with the slices.Sort call left out
OrderedVersionsUnsorted(migs, iter) == [i \in DOMAIN iter |-> migs[iter[i]].version]

\* iter is the order in which the range loop visits the map's keys
OrderedVersions(migs, iter) == SortU64([i \in DOMAIN iter |-> migs[iter[i]].version])

\* sort.Slice with the less function turned around: Version() > Version()
RECURSIVE InsertMigrationDescending(_, _)
InsertMigrationDescending(sorted, mig) ==
    IF sorted = <<>> THEN <<mig>>
    ELSE IF U64Less(Head(sorted).version, mig.version) THEN <<mig>> \o sorted
    ELSE <<Head(sorted)>> \o InsertMigrationDescending(Tail(sorted), mig)

\* sort.Slice with less = Version() < Version()
RECURSIVE InsertMigration(_, _)
InsertMigration(sorted, mig) ==
    IF sorted = <<>> THEN <<mig>>
    ELSE IF U64Less(mig.version, Head(sorted).version) THEN <<mig>> \o sorted
    ELSE <<Head(sorted)>> \o InsertMigration(Tail(sorted), mig)

RECURSIVE SortMigrations(_)
SortMigrations(migs) ==
    IF migs = <<>> THEN <<>>
    ELSE InsertMigration(SortMigrations(SubSeq(migs, 1, Len(migs) - 1)), migs[Len(migs)])

\* OrderedMigrations with the sort.Slice call left out
OrderedMigrationsUnsorted(migs, iter) == [i \in DOMAIN iter |-> migs[iter[i]]]

OrderedMigrations(migs, iter) == SortMigrations([i \in DOMAIN iter |-> migs[iter[i]]])

\* Get that finds nothing
GetNothing(migs, version) == NilMigration

Get(migs, version) == IF version \in DOMAIN migs THEN migs[version] ELSE NilMigration

Count(migs) == Cardinality(DOMAIN migs)

\* ------------------------------------------------ the generic registry's calls
NoCall == [op |-> "none"]

\* the run engine before its first run: no operation, nothing planned or invoked
NoRun ==
    [phase |-> "Idle", op |-> "none", all |-> FALSE, steps |-> 0, reconciled |-> FALSE,
     plan |-> <<>>, loaded |-> {}, step |-> "invoke", startMs |-> Zero64,
     calls |-> <<>>, completed |-> <<>>, err |-> NoError, failed |-> Zero64,
     stats |-> <<>>, before |-> {}, registry |-> <<>>]

\* ---- the exclusivity guard's lock files and the processes that use them
Procs == {"p1", "p2"}

LockNames == {"lock-a", "lock-b"}

NoHolder == "none"

NoLocks == [name \in LockNames |-> NoHolder]

\* a process that has not run anything: its settings, and an empty run
IdleProc(exclusive, lockName) ==
    [exclusive |-> exclusive, lockName |-> lockName, phase |-> "Idle", acquired |-> FALSE,
     todo |-> 0, step |-> "invoke", calls |-> 0, writes |-> 0, err |-> NoError]

NoProcs == [p \in Procs |-> IdleProc(FALSE, "lock-a")]

Init ==
    /\ migrations = NewGenericRegistry
    /\ registered = <<>>
    /\ ret = NoCall
    /\ dirReadable = TRUE
    /\ dirEntries = {}
    /\ tableExists = FALSE
    /\ rows = {}
    /\ lastWrite = <<>>
    /\ run = NoRun
    /\ locks = NoLocks
    /\ procs = NoProcs

RegisterCall(m) ==
    LET r == Register(migrations, m)
    IN  /\ migrations' = r.migrations
        /\ registered' = IF r.err = NoError THEN Append(registered, m.version) ELSE registered
        /\ ret' = [op |-> "Register", arg |-> m, err |-> r.err, before |-> migrations]
        /\ UNCHANGED <<dbVars, dirVars, runVars, guardVars>>

OrderedVersionsCall ==
    \E iter \in Orderings(DOMAIN migrations) :
        /\ ret' = [op |-> "OrderedVersions", out |-> OrderedVersions(migrations, iter),
                   iter |-> iter, before |-> migrations]
        /\ UNCHANGED <<regVars, dbVars, dirVars, runVars, guardVars>>

OrderedMigrationsCall ==
    \E iter \in Orderings(DOMAIN migrations) :
        /\ ret' = [op |-> "OrderedMigrations", out |-> OrderedMigrations(migrations, iter),
                   iter |-> iter, before |-> migrations]
        /\ UNCHANGED <<regVars, dbVars, dirVars, runVars, guardVars>>

GetCall(version) ==
    /\ ret' = [op |-> "Get", arg |-> version, out |-> Get(migrations, version),
               before |-> migrations]
    /\ UNCHANGED <<regVars, dbVars, dirVars, runVars, guardVars>>

CountCall ==
    /\ ret' = [op |-> "Count", out |-> Count(migrations), before |-> migrations]
    /\ UNCHANGED <<regVars, dbVars, dirVars, runVars, guardVars>>

Next ==
    \/ \E m \in Migrations : RegisterCall(m)
    \/ OrderedVersionsCall
    \/ OrderedMigrationsCall
    \/ \E v \in Versions : GetCall(v)
    \/ CountCall

Spec == Init /\ [][Next]_vars

\* ------------------------------------------------------------------- claims
ToSet(s) == {s[i] : i \in DOMAIN s}

StrictlyAscending(s) == \A i \in 1..(Len(s) - 1) : U64Less(s[i], s[i + 1])

\* C1: Register(m) of an already registered version returns an error and leaves
\* the registry as it was (same Count, Get still gives the migration registered
\* first); Register of a new version returns no error and inserts m.
C1_RegisterDuplicateRejected ==
    ret.op = "Register" =>
        LET v == ret.arg.version IN
        IF v \in DOMAIN ret.before
        THEN /\ ret.err # NoError
             /\ Count(migrations) = Count(ret.before)
             /\ Get(migrations, v) = ret.before[v]
             /\ migrations = ret.before
        ELSE /\ ret.err = NoError
             /\ Get(migrations, v) = ret.arg
             /\ Count(migrations) = Count(ret.before) + 1
             /\ \A w \in DOMAIN ret.before : Get(migrations, w) = ret.before[w]

\* a duplicate Register call (another object, same version) has just returned
C1_Witness ==
    /\ ret.op = "Register"
    /\ ret.arg.version \in DOMAIN ret.before
    /\ ret.before[ret.arg.version] # ret.arg
    /\ ret.err = ErrAlreadyRegistered

\* C2: OrderedVersions returns exactly the registered versions, each once, in
\* strictly ascending order, whatever the order of the Register calls was.
C2_OrderedVersionsSorted ==
    ret.op = "OrderedVersions" =>
        /\ ToSet(ret.out) = ToSet(registered)
        /\ Len(ret.out) = Len(registered)
        /\ StrictlyAscending(ret.out)

\* three versions were registered out of order, the map was walked in yet
\* another order, and OrderedVersions has returned
C2_Witness ==
    /\ ret.op = "OrderedVersions"
    /\ Len(registered) = 3
    /\ ~StrictlyAscending(registered)
    /\ ~StrictlyAscending(ret.iter)
    /\ ret.iter # registered

\* C21: Get(v) returns the migration registered under v, whose version is v,
\* when a Register call of v has returned no error, and the nil Migration when
\* none has; it leaves the registry as it was.
C21_GetReturnsRegistered ==
    ret.op = "Get" =>
        /\ migrations = ret.before
        /\ IF ret.arg \in ToSet(registered)
           THEN /\ ret.out # NilMigration
                /\ ret.out \in Migrations
                /\ ret.out.version = ret.arg
                /\ ret.out = ret.before[ret.arg]
           ELSE ret.out = NilMigration

\* Get has returned the migration of a registered version, with others registered
C21_Witness ==
    /\ ret.op = "Get"
    /\ Len(registered) >= 2
    /\ ret.arg = U(2)
    /\ ret.out = [id |-> "m2", version |-> U(2)]

\* Get has returned nil for a version that is not registered, in a registry that is not empty
C21_WitnessAbsent ==
    /\ ret.op = "Get"
    /\ Len(registered) >= 1
    /\ ret.arg \notin ToSet(registered)
    /\ ret.out = NilMigration

\* the versions of a sequence of migrations
VersionsOf(migs) == [i \in DOMAIN migs |-> migs[i].version]

\* some order in which the map can be walked
SomeIter == CHOOSE iter \in Orderings(DOMAIN migrations) : TRUE

\* C25: in every registry state, whatever the order the map is walked in,
\* OrderedVersions and OrderedMigrations have length Count, the version of
\* OrderedMigrations[i] is OrderedVersions[i], and OrderedMigrations[i] is what
\* Get returns for that version; Count is the number of Register calls that
\* returned no error.
C25_OrderedViewsAgree ==
    LET versions == OrderedVersions(migrations, SomeIter)
    IN  /\ Count(migrations) = Len(registered)
        /\ Len(versions) = Count(migrations)
        /\ \A iter \in Orderings(DOMAIN migrations) :
              LET orderedMigrations == OrderedMigrations(migrations, iter)
              IN  /\ OrderedVersions(migrations, iter) = versions
                  /\ Len(orderedMigrations) = Count(migrations)
                  /\ VersionsOf(orderedMigrations) = versions
                  /\ \A i \in DOMAIN orderedMigrations :
                        Get(migrations, versions[i]) = orderedMigrations[i]
        /\ ret.op = "OrderedMigrations" => VersionsOf(ret.out) = versions
        /\ ret.op = "OrderedVersions" => ret.out = versions
        /\ ret.op = "Count" => ret.out = Len(registered)

\* OrderedMigrations has returned three migrations that were registered in
\* descending order, after walking the map in neither order
C25_Witness ==
    /\ ret.op = "OrderedMigrations"
    /\ registered = <<U(3), U(2), U(1)>>
    /\ ret.iter = <<U(2), U(3), U(1)>>
    /\ VersionsOf(ret.out) = <<U(1), U(2), U(3)>>

\* Count has returned 2 after a Register call of the registry's two versions each
C25_WitnessCount ==
    /\ ret.op = "Count"
    /\ ret.out = 2
    /\ Len(registered) = 2

\* ------------------------------------------ MysqlHandler: the executions table
\* execution.MigrationExecution values the calls are tried with
LedgerVersions == {U(n) : n \in 1..MaxLedgerVersion}

Timestamps == {U(n) : n \in 1..MaxMs}

Executions == [Version : LedgerVersions, ExecutedAtMs : Timestamps, FinishedAtMs : Timestamps]

\* the nil *MigrationExecution
NilExecution == [nil |-> TRUE]

\* a SQL NULL in a column
Null == <<>>

ErrNoTable == "Table 'migration_executions' doesn't exist"

ErrConnection == "driver: bad connection"

ErrScan == "sql: Scan error: converting NULL to uint64 is unsupported"

\* the storage as the statements see it
Storage(exists, tableRows) == [tableExists |-> exists, rows |-> tableRows]

\* INSERT INTO t VALUES (?, ?, ?): the row of an execution
RowOf(execution) ==
    [version |-> execution.Version,
     executed_at_ms |-> execution.ExecutedAtMs,
     finished_at_ms |-> execution.FinishedAtMs]

\* rows.Scan(&exec.Version, &exec.ExecutedAtMs, &exec.FinishedAtMs)
ScanFails(row) ==
    row.version = Null \/ row.executed_at_ms = Null \/ row.finished_at_ms = Null

ScanRow(row) ==
    [Version |-> row.version,
     ExecutedAtMs |-> row.executed_at_ms,
     FinishedAtMs |-> row.finished_at_ms]

\* the rows an execution's version does not select
OtherRowsOf(tableRows, execution) == {r \in tableRows : r.version # execution.Version}

ErrTableExists == "Table 'migration_executions' already exists"

\* Init as CREATE TABLE without IF NOT EXISTS
InitStorageCreateOnly(db, dbOk) ==
    IF ~dbOk THEN [db |-> db, err |-> ErrConnection]
    ELSE IF db.tableExists THEN [db |-> db, err |-> ErrTableExists]
    ELSE [db |-> Storage(TRUE, {}), err |-> NoError]

\* Init: CREATE TABLE IF NOT EXISTS
InitStorage(db, dbOk) ==
    IF ~dbOk THEN [db |-> db, err |-> ErrConnection]
    ELSE [db |-> Storage(TRUE, IF db.tableExists THEN db.rows ELSE {}), err |-> NoError]

\* Save as INSERT IGNORE: a row that is already there is kept as it is
SaveIgnoreDuplicate(db, execution, dbOk) ==
    IF ~dbOk THEN [db |-> db, err |-> ErrConnection]
    ELSE IF ~db.tableExists THEN [db |-> db, err |-> ErrNoTable]
    ELSE IF \E r \in db.rows : r.version = execution.Version
    THEN [db |-> db, err |-> NoError]
    ELSE [db |-> Storage(TRUE, db.rows \cup {RowOf(execution)}), err |-> NoError]

\* Save that drops the error of ExecContext
SaveSwallowsError(db, execution, dbOk) ==
    IF ~dbOk \/ ~db.tableExists THEN [db |-> db, err |-> NoError]
    ELSE [db |-> Storage(TRUE, OtherRowsOf(db.rows, execution) \cup {RowOf(execution)}),
          err |-> NoError]

\* Save that creates the table when it is missing
SaveCreatesTable(db, execution, dbOk) ==
    IF ~dbOk THEN [db |-> db, err |-> ErrConnection]
    ELSE [db |-> Storage(TRUE, OtherRowsOf(IF db.tableExists THEN db.rows ELSE {}, execution)
                                   \cup {RowOf(execution)}),
          err |-> NoError]

\* Save: INSERT ... ON DUPLICATE KEY UPDATE executed_at_ms, finished_at_ms
Save(db, execution, dbOk) ==
    IF ~dbOk THEN [db |-> db, err |-> ErrConnection]
    ELSE IF ~db.tableExists THEN [db |-> db, err |-> ErrNoTable]
    ELSE IF \E r \in db.rows : r.version = execution.Version
    THEN [db |-> Storage(TRUE,
                    {IF r.version = execution.Version
                     THEN [r EXCEPT !.executed_at_ms = execution.ExecutedAtMs,
                                    !.finished_at_ms = execution.FinishedAtMs]
                     ELSE r : r \in db.rows}),
          err |-> NoError]
    ELSE [db |-> Storage(TRUE, db.rows \cup {RowOf(execution)}), err |-> NoError]

\* Remove with the timestamps in the WHERE clause too
RemoveExactRow(db, execution, dbOk) ==
    IF ~dbOk THEN [db |-> db, err |-> ErrConnection]
    ELSE IF ~db.tableExists THEN [db |-> db, err |-> ErrNoTable]
    ELSE [db |-> Storage(TRUE, db.rows \ {RowOf(execution)}), err |-> NoError]

\* Remove as DELETE FROM t, with no WHERE clause
RemoveWithoutWhere(db, execution, dbOk) ==
    IF ~dbOk THEN [db |-> db, err |-> ErrConnection]
    ELSE IF ~db.tableExists THEN [db |-> db, err |-> ErrNoTable]
    ELSE [db |-> Storage(TRUE, {}), err |-> NoError]

\* Remove: DELETE FROM t WHERE version = ?
Remove(db, execution, dbOk) ==
    IF ~dbOk THEN [db |-> db, err |-> ErrConnection]
    ELSE IF ~db.tableExists THEN [db |-> db, err |-> ErrNoTable]
    ELSE [db |-> Storage(TRUE, {r \in db.rows : r.version # execution.Version}),
          err |-> NoError]

\* FindOne that hands sql.ErrNoRows on to the caller
FindOneNoRowsIsError(db, version, row, dbOk) ==
    IF ~dbOk THEN [exec |-> NilExecution, err |-> ErrConnection]
    ELSE IF ~db.tableExists THEN [exec |-> NilExecution, err |-> ErrNoTable]
    ELSE IF row = Null THEN [exec |-> NilExecution, err |-> "sql: no rows in result set"]
    ELSE IF ScanFails(row) THEN [exec |-> NilExecution, err |-> ErrScan]
    ELSE [exec |-> ScanRow(row), err |-> NoError]

\* FindOne: SELECT ... WHERE version = ?, then Scan of the first row.
\* row is the first row of the result, Null when the result is empty.
FindOne(db, version, row, dbOk) ==
    IF ~dbOk THEN [exec |-> NilExecution, err |-> ErrConnection]
    ELSE IF ~db.tableExists THEN [exec |-> NilExecution, err |-> ErrNoTable]
    ELSE IF row = Null THEN [exec |-> NilExecution, err |-> NoError]
    ELSE IF ScanFails(row) THEN [exec |-> NilExecution, err |-> ErrScan]
    ELSE [exec |-> ScanRow(row), err |-> NoError]

\* the rows QueryRowContext may hand to Scan: any row of the version, Null if none
FirstRows(db, version) ==
    IF db.tableExists /\ \E r \in db.rows : r.version = version
    THEN {r \in db.rows : r.version = version}
    ELSE {Null}

\* the for rows.Next() loop: stops at the first row that does not scan
RECURSIVE ScanRows(_, _)
ScanRows(resultRows, executions) ==
    IF resultRows = <<>> THEN [executions |-> executions, err |-> NoError]
    ELSE IF ScanFails(Head(resultRows)) THEN [executions |-> executions, err |-> ErrScan]
    ELSE ScanRows(Tail(resultRows), Append(executions, ScanRow(Head(resultRows))))

\* LoadExecutions that loses the first row of the result
LoadExecutionsSkipFirst(db, resultRows, dbOk) ==
    IF ~dbOk THEN [executions |-> <<>>, err |-> ErrConnection]
    ELSE IF ~db.tableExists THEN [executions |-> <<>>, err |-> ErrNoTable]
    ELSE ScanRows(IF resultRows = <<>> THEN <<>> ELSE Tail(resultRows), <<>>)

\* LoadExecutions that returns no executions when a row does not scan
LoadExecutionsDiscardsProgress(db, resultRows, dbOk) ==
    IF ~dbOk THEN [executions |-> <<>>, err |-> ErrConnection]
    ELSE IF ~db.tableExists THEN [executions |-> <<>>, err |-> ErrNoTable]
    ELSE LET r == ScanRows(resultRows, <<>>)
         IN  IF r.err = NoError THEN r ELSE [executions |-> <<>>, err |-> r.err]

\* LoadExecutions: SELECT of all rows; resultRows is the order the server returns them in
LoadExecutions(db, resultRows, dbOk) ==
    IF ~dbOk THEN [executions |-> <<>>, err |-> ErrConnection]
    ELSE IF ~db.tableExists THEN [executions |-> <<>>, err |-> ErrNoTable]
    ELSE ScanRows(resultRows, <<>>)

\* ------------------------------------------------------ the repository's calls
CurrentDb == Storage(tableExists, rows)

NoWrite == [kind |-> "none", saves |-> 0]

LastWriteOf(version) ==
    IF version \in DOMAIN lastWrite THEN lastWrite[version] ELSE NoWrite

\* lastWrite after a write of kind `kind` for the version of `execution`; saves
\* tells whether the version has been saved never, once or more often (0, 1, 2)
Written(kind, execution) ==
    [v \in DOMAIN lastWrite \cup {execution.Version} |->
        IF v = execution.Version
        THEN [kind |-> kind, exec |-> execution,
              saves |-> IF kind # "save" THEN LastWriteOf(v).saves
                        ELSE IF LastWriteOf(v).saves = 0 THEN 1 ELSE 2]
        ELSE lastWrite[v]]

InitLedger ==
    /\ migrations = NewGenericRegistry
    /\ registered = <<>>
    /\ dirReadable = TRUE
    /\ dirEntries = {}
    /\ tableExists = FALSE
    /\ rows = {}
    /\ lastWrite = <<>>
    /\ run = NoRun
    /\ locks = NoLocks
    /\ procs = NoProcs
    /\ ret = NoCall

InitCall(dbOk) ==
    LET r == InitStorage(CurrentDb, dbOk)
    IN  /\ tableExists' = r.db.tableExists
        /\ rows' = r.db.rows
        /\ lastWrite' = lastWrite
        /\ ret' = [op |-> "Init", err |-> r.err, dbOk |-> dbOk, before |-> CurrentDb]
        /\ UNCHANGED <<regVars, dirVars, runVars, guardVars>>

SaveCall(execution, dbOk) ==
    LET r == Save(CurrentDb, execution, dbOk)
    IN  /\ tableExists' = r.db.tableExists
        /\ rows' = r.db.rows
        /\ lastWrite' = IF r.err = NoError THEN Written("save", execution) ELSE lastWrite
        /\ ret' = [op |-> "Save", arg |-> execution, err |-> r.err, dbOk |-> dbOk,
                   before |-> CurrentDb]
        /\ UNCHANGED <<regVars, dirVars, runVars, guardVars>>

RemoveCall(execution, dbOk) ==
    LET r == Remove(CurrentDb, execution, dbOk)
    IN  /\ tableExists' = r.db.tableExists
        /\ rows' = r.db.rows
        /\ lastWrite' = IF r.err = NoError THEN Written("remove", execution) ELSE lastWrite
        /\ ret' = [op |-> "Remove", arg |-> execution, err |-> r.err, dbOk |-> dbOk,
                   before |-> CurrentDb]
        /\ UNCHANGED <<regVars, dirVars, runVars, guardVars>>

FindOneCall(version, dbOk) ==
    \E row \in FirstRows(CurrentDb, version) :
        LET r == FindOne(CurrentDb, version, row, dbOk)
        IN  /\ ret' = [op |-> "FindOne", arg |-> version, exec |-> r.exec, err |-> r.err,
                       dbOk |-> dbOk, before |-> CurrentDb]
            /\ UNCHANGED <<dbVars, regVars, dirVars, runVars, guardVars>>

LoadExecutionsCall(dbOk) ==
    \E resultRows \in Orderings(rows) :
        LET r == LoadExecutions(CurrentDb, resultRows, dbOk)
        IN  /\ ret' = [op |-> "LoadExecutions", executions |-> r.executions, err |-> r.err,
                       dbOk |-> dbOk, before |-> CurrentDb, result |-> resultRows]
            /\ UNCHANGED <<dbVars, regVars, dirVars, runVars, guardVars>>

\* the table is dropped behind the handler's back, as the tests do
DropTable ==
    /\ tableExists
    /\ tableExists' = FALSE
    /\ rows' = {}
    /\ lastWrite' = <<>>
    /\ ret' = [op |-> "DropTable"]
    /\ UNCHANGED <<regVars, dirVars, runVars, guardVars>>

NextLedger ==
    \/ \E dbOk \in BOOLEAN : InitCall(dbOk)
    \/ \E e \in Executions, dbOk \in BOOLEAN : SaveCall(e, dbOk)
    \/ \E e \in Executions, dbOk \in BOOLEAN : RemoveCall(e, dbOk)
    \/ \E v \in LedgerVersions, dbOk \in BOOLEAN : FindOneCall(v, dbOk)
    \/ \E dbOk \in BOOLEAN : LoadExecutionsCall(dbOk)
    \/ DropTable

SpecLedger == InitLedger /\ [][NextLedger]_vars

\* every result FindOne can give for a version on the current storage
FindOneResults(version) ==
    {FindOne(CurrentDb, version, row, TRUE) : row \in FirstRows(CurrentDb, version)}

Found(execution) == [exec |-> execution, err |-> NoError]

NotFound == [exec |-> NilExecution, err |-> NoError]

\* C7: Save is an upsert.  On an initialised table with a working connection it
\* succeeds; after a successful Save(e), FindOne(e.Version) gives exactly e,
\* whether a record of that version existed or not; the table never holds two
\* rows of one version; a second Save(e) would leave the table as it is.
C7_SaveUpsert ==
    /\ \A r1, r2 \in rows : r1.version = r2.version => r1 = r2
    /\ ret.op = "Save" =>
          /\ (ret.before.tableExists /\ ret.dbOk) => ret.err = NoError
          /\ ret.err = NoError =>
                /\ FindOneResults(ret.arg.Version) = {Found(ret.arg)}
                /\ Save(CurrentDb, ret.arg, TRUE).db = CurrentDb

\* a successful Save has replaced a record of the same version with other timestamps
C7_Witness ==
    /\ ret.op = "Save"
    /\ ret.err = NoError
    /\ \E r \in ret.before.rows :
          /\ r.version = ret.arg.Version
          /\ r # RowOf(ret.arg)
    /\ Cardinality(rows) = 2

\* C8: after any successful Saves and Removes on an initialised table, a
\* successful LoadExecutions returns exactly one record for each version whose
\* last write was a Save, with that Save's timestamps, and nothing else.
C8_LoadReturnsLastSaves ==
    (ret.op = "LoadExecutions" /\ tableExists /\ ret.dbOk) =>
        /\ ret.err = NoError
        /\ ToSet(ret.executions) =
              {lastWrite[v].exec : v \in {w \in DOMAIN lastWrite : lastWrite[w].kind = "save"}}
        /\ \A i, j \in DOMAIN ret.executions :
              ret.executions[i].Version = ret.executions[j].Version => i = j

\* LoadExecutions has returned the one record of a version that was saved more
\* than once, while another version was saved and then removed
C8_Witness ==
    /\ ret.op = "LoadExecutions"
    /\ ret.err = NoError
    /\ Len(ret.executions) = 1
    /\ LastWriteOf(ret.executions[1].Version).saves = 2
    /\ \E v \in DOMAIN lastWrite : lastWrite[v].kind = "remove" /\ lastWrite[v].saves > 0

\* LoadExecutions has returned the records of two versions
C8_WitnessTwo ==
    /\ ret.op = "LoadExecutions"
    /\ ret.err = NoError
    /\ Len(ret.executions) = 2

\* C9: Remove deletes by version.  On an initialised table with a working
\* connection it succeeds, also when the version has no record; afterwards
\* FindOne(e.Version) reports not found, a call for a version without a record
\* leaves the table unchanged, and a second Remove(e) would change nothing.
C9_RemoveDeletes ==
    ret.op = "Remove" =>
        /\ (ret.before.tableExists /\ ret.dbOk) => ret.err = NoError
        /\ ret.err = NoError =>
              /\ FindOneResults(ret.arg.Version) = {NotFound}
              /\ (\A r \in ret.before.rows : r.version # ret.arg.Version) =>
                    CurrentDb = ret.before
              /\ Remove(CurrentDb, ret.arg, TRUE).db = CurrentDb

\* a successful Remove(e) has deleted a record whose timestamps differ from e's
C9_Witness ==
    /\ ret.op = "Remove"
    /\ ret.err = NoError
    /\ \E r \in ret.before.rows :
          /\ r.version = ret.arg.Version
          /\ r # RowOf(ret.arg)
    /\ rows # {}

\* a successful Remove for a version that had no record
C9_WitnessAbsent ==
    /\ ret.op = "Remove"
    /\ ret.err = NoError
    /\ ret.before.rows # {}
    /\ \A r \in ret.before.rows : r.version # ret.arg.Version

\* C10: on an initialised table with a working connection, FindOne returns the
\* stored record and no error when the version has one, and (nil, nil) when it
\* has none.
C10_FindOneAbsenceIsNotAnError ==
    (ret.op = "FindOne" /\ tableExists /\ ret.dbOk) =>
        /\ ret.err = NoError
        /\ IF \E r \in rows : r.version = ret.arg
           THEN /\ ret.exec # NilExecution
                /\ RowOf(ret.exec) \in rows
                /\ ret.exec.Version = ret.arg
           ELSE ret.exec = NilExecution

\* FindOne has reported (nil, nil) for a version that was removed, while
\* another version has a record
C10_Witness ==
    /\ ret.op = "FindOne"
    /\ ret = [op |-> "FindOne", arg |-> ret.arg, exec |-> NilExecution, err |-> NoError,
              dbOk |-> TRUE, before |-> CurrentDb]
    /\ tableExists
    /\ rows # {}
    /\ LastWriteOf(ret.arg).kind = "remove"

\* C11: Init is idempotent.  With a working connection it succeeds; it creates
\* the table, empty, when there is none, and leaves an existing table with all
\* its rows as it was; a second Init right after succeeds too and leaves the
\* storage as the first call left it.
C11_InitIdempotent ==
    ret.op = "Init" =>
        /\ ret.dbOk => ret.err = NoError
        /\ ret.err = NoError =>
              /\ tableExists
              /\ ret.before.tableExists => CurrentDb = ret.before
              /\ ~ret.before.tableExists => rows = {}
              /\ InitStorage(CurrentDb, TRUE) = [db |-> CurrentDb, err |-> NoError]

\* Init has succeeded on a table that held records of two versions
C11_Witness ==
    /\ ret.op = "Init"
    /\ ret.err = NoError
    /\ ret.before.tableExists
    /\ Cardinality(rows) = 2

\* Init has created the table
C11_WitnessCreated ==
    /\ ret.op = "Init"
    /\ ret.err = NoError
    /\ ~ret.before.tableExists
    /\ tableExists

\* the calls of the handler other than Init
StorageCalls == {"LoadExecutions", "Save", "Remove", "FindOne"}

\* C20: on a missing executions table each of LoadExecutions, Save, Remove and
\* FindOne returns a storage error (the server's "table doesn't exist" when the
\* connection works), returns no execution, and leaves the table missing; the
\* table comes into being only by a successful Init.
C20_MissingTableIsAnError ==
    /\ []((ret.op \in StorageCalls /\ ~ret.before.tableExists) =>
            /\ ret.err # NoError
            /\ ret.dbOk => ret.err = ErrNoTable
            /\ CurrentDb = ret.before
            /\ ret.op = "LoadExecutions" => ret.executions = <<>>
            /\ ret.op = "FindOne" => ret.exec = NilExecution)
    /\ [][(~tableExists /\ tableExists') => (ret'.op = "Init" /\ ret'.err = NoError)]_vars

\* Save was called on a working connection after the table was dropped
C20_Witness ==
    /\ ret.op = "Save"
    /\ ret.dbOk
    /\ ~ret.before.tableExists
    /\ ret.err = ErrNoTable
    /\ lastWrite = <<>>
    /\ ~tableExists

\* FindOne was called on a working connection with the table missing
C20_WitnessFindOne ==
    /\ ret.op = "FindOne"
    /\ ret.dbOk
    /\ ~ret.before.tableExists
    /\ ret.err = ErrNoTable

\* executedAtMs <= finishedAtMs, for a row and for an execution
RowTimesOrdered(row) == ~U64Less(row.finished_at_ms, row.executed_at_ms)

TimesOrdered(execution) == ~U64Less(execution.FinishedAtMs, execution.ExecutedAtMs)

\* C22: every record held in the table has executedAtMs <= finishedAtMs after
\* any sequence of Save and Remove calls, and so has every record that
\* LoadExecutions or FindOne returns.
C22_TimesOrdered ==
    /\ \A row \in rows : RowTimesOrdered(row)
    /\ ret.op = "LoadExecutions" =>
          \A i \in DOMAIN ret.executions : TimesOrdered(ret.executions[i])
    /\ (ret.op = "FindOne" /\ ret.exec # NilExecution) => TimesOrdered(ret.exec)

\* what does hold: the table holds what the last Save of each version was given,
\* whatever its times
C22_TableHoldsWhatWasSaved ==
    \A row \in rows :
        /\ LastWriteOf(row.version).kind = "save"
        /\ RowOf(LastWriteOf(row.version).exec) = row

\* Save has stored a record whose executedAtMs is after its finishedAtMs
C22_StoredUnordered ==
    /\ ret.op = "Save"
    /\ ret.err = NoError
    /\ ~TimesOrdered(ret.arg)
    /\ RowOf(ret.arg) \in rows

\* every result FindOne can give for a version on a storage
FindOneResultsOn(db, version) ==
    {FindOne(db, version, row, TRUE) : row \in FirstRows(db, version)}

\* C30: Save(e) and Remove(e) leave FindOne(w) as it was for every version w
\* other than e.Version; a Remove that returns no error leaves no record of
\* e.Version, whatever the timestamps of e and of the stored record;
\* LoadExecutions and FindOne change no record.
C30_WritesTouchOneVersion ==
    /\ ret.op \in {"Save", "Remove"} =>
          /\ \A w \in LedgerVersions \ {ret.arg.Version} :
                FindOneResultsOn(CurrentDb, w) = FindOneResultsOn(ret.before, w)
          /\ OtherRowsOf(rows, ret.arg) = OtherRowsOf(ret.before.rows, ret.arg)
    /\ (ret.op = "Remove" /\ ret.err = NoError) =>
          FindOneResultsOn(CurrentDb, ret.arg.Version) = {[exec |-> NilExecution, err |-> NoError]}
    /\ ret.op \in {"LoadExecutions", "FindOne"} => CurrentDb = ret.before

\* Remove was given other timestamps than the stored record of its version has,
\* and has deleted that record and left the record of another version
C30_Witness ==
    /\ ret.op = "Remove"
    /\ ret.err = NoError
    /\ \E row \in ret.before.rows :
          row.version = ret.arg.Version /\ row # RowOf(ret.arg)
    /\ rows # {}
    /\ rows = OtherRowsOf(ret.before.rows, ret.arg)

\* Save has replaced the record of its version next to the record of another version
C30_WitnessSave ==
    /\ ret.op = "Save"
    /\ ret.err = NoError
    /\ \E row \in ret.before.rows :
          row.version = ret.arg.Version /\ row # RowOf(ret.arg)
    /\ Cardinality(rows) = 2

\* ------------------------------------------- the executions table with NULLs
\* TestItFailsToLoadExecutionsFromInvalidRepoData: finished_at_ms is altered to
\* accept NULL and rows are inserted behind the handler's back
RawRows ==
    [version : LedgerVersions,
     executed_at_ms : Timestamps,
     finished_at_ms : Timestamps \cup {Null}]

\* the table after Init and the ALTER TABLE of the test
InitScan ==
    /\ migrations = NewGenericRegistry
    /\ registered = <<>>
    /\ dirReadable = TRUE
    /\ dirEntries = {}
    /\ tableExists = TRUE
    /\ rows = {}
    /\ lastWrite = <<>>
    /\ run = NoRun
    /\ locks = NoLocks
    /\ procs = NoProcs
    /\ ret = NoCall

\* insert into t values (...): version is the primary key
InsertValues(row) ==
    /\ tableExists
    /\ \A r \in rows : r.version # row.version
    /\ rows' = rows \cup {row}
    /\ ret' = [op |-> "InsertValues", arg |-> row]
    /\ UNCHANGED <<tableExists, lastWrite, regVars, dirVars, runVars, guardVars>>

NextScan ==
    \/ \E row \in RawRows : InsertValues(row)
    \/ \E dbOk \in BOOLEAN : LoadExecutionsCall(dbOk)

SpecScan == InitScan /\ [][NextScan]_vars

\* the positions of a result whose row does not scan
Malformed(resultRows) == {i \in DOMAIN resultRows : ScanFails(resultRows[i])}

\* the number of rows of a result before its first malformed one
DecodedBefore(resultRows) ==
    IF Malformed(resultRows) = {} THEN Len(resultRows)
    ELSE (CHOOSE i \in Malformed(resultRows) : \A j \in Malformed(resultRows) : i <= j) - 1

\* C19: LoadExecutions on a result with a malformed record returns an error
\* together with exactly the records decoded before the first malformed one, in
\* the result's order; on a result with no malformed record it returns all the
\* records and no error.
C19_LoadKeepsDecodedPrefix ==
    (ret.op = "LoadExecutions" /\ ret.dbOk /\ ret.before.tableExists) =>
        /\ ret.result \in Orderings(ret.before.rows)
        /\ ret.executions =
               [i \in 1..DecodedBefore(ret.result) |-> ScanRow(ret.result[i])]
        /\ ret.err = NoError <=> Malformed(ret.result) = {}

\* LoadExecutions has met a malformed record after a well-formed one
C19_Witness ==
    /\ ret.op = "LoadExecutions"
    /\ Len(ret.result) = 2
    /\ Malformed(ret.result) = {2}
    /\ ret.err = ErrScan
    /\ Len(ret.executions) = 1

\* LoadExecutions has met a malformed record first and returned nothing of the rest
C19_WitnessStops ==
    /\ ret.op = "LoadExecutions"
    /\ Len(ret.result) = 2
    /\ Malformed(ret.result) = {1}
    /\ ret.err = ErrScan
    /\ ret.executions = <<>>

\* ------------------------------------------------------ DirMigrationsRegistry
FileNamePrefix == <<"v", "e", "r", "s", "i", "o", "n">>

FileNameSeparator == <<"_">>

GoSuffix == <<".", "g", "o">>

\* the name the repository's code builds for the file of a version:
\* FileNamePrefix + FileNameSeparator + strconv.Itoa(int(version)) + ".go"
FileName(version) == FileNamePrefix \o FileNameSeparator \o Itoa(version) \o GoSuffix

\* the name the README asks for: version_{unix timestamp seconds}.go, the
\* timestamp part being what Version() returns, an unsigned 64-bit number
DecimalFileName(version) ==
    FileNamePrefix \o FileNameSeparator \o FormatUint(version) \o GoSuffix

\* the versions the directory-backed registry is tried with
DirVersions == {U(n) : n \in 1..MaxDirVersion} \cup {MinInt64}

DirMigrations == [id : {"m1"}, version : DirVersions]

File(name) == [name |-> name, isDir |-> FALSE]

Dir(name) == [name |-> name, isDir |-> TRUE]

\* the migration files of the versions, as the repository's code names them
CanonicalEntries == {File(FileName(v)) : v \in DirVersions}

\* the migration files of the versions, named as the README asks
DecimalEntries == {File(DecimalFileName(v)) : v \in DirVersions}

\* other things found in a migrations directory: a sub-directory named like a
\* migration file, a file whose version has a leading zero, a file without the prefix
OtherEntries ==
    {Dir(FileName(U(2))),
     File(FileNamePrefix \o FileNameSeparator \o <<"0", "1">> \o GoSuffix),
     File(<<"r", "e", "a", "d", "m", "e">>)}

\* the contents a directory can have: entries with different names
Directories ==
    {d \in SUBSET (CanonicalEntries \cup DecimalEntries \cup OtherEntries) :
        /\ Cardinality(d) <= MaxDirEntries
        /\ \A e1, e2 \in d : e1.name = e2.name => e1 = e2}

\* os.ReadDir: the entries sorted by filename
RECURSIVE ReadDir(_)
ReadDir(entries) ==
    IF entries = {} THEN <<>>
    ELSE LET first == CHOOSE e \in entries : \A o \in entries \ {e} : StrLess(e.name, o.name)
         IN  <<first>> \o ReadDir(entries \ {first})

\* the loop over the directory entries: registeredCopy loses the versions that
\* have a file, missing collects the files whose version is not in it
RECURSIVE ScanDir(_, _, _)
ScanDir(entries, registeredCopy, missing) ==
    IF entries = <<>> THEN [registeredCopy |-> registeredCopy, missing |-> missing]
    ELSE LET item == Head(entries)
             fname == TrimLeft(item.name, FileNamePrefix \o FileNameSeparator)
             version == Atoi(TrimRight(fname, GoSuffix))
         IN  IF item.isDir \/ ~HasPrefix(item.name, FileNamePrefix \o FileNameSeparator)
             THEN ScanDir(Tail(entries), registeredCopy, missing)
             ELSE IF version.err
             THEN ScanDir(Tail(entries), registeredCopy, missing)
             ELSE IF version.value \in registeredCopy
             THEN ScanDir(Tail(entries), registeredCopy \ {version.value}, missing)
             ELSE ScanDir(Tail(entries), registeredCopy, Append(missing, item.name))

\* the name built for a registered version that has no file
ExtraName(version) == FileNamePrefix \o FileNameSeparator \o Itoa(version) \o GoSuffix

ErrReadDir == "failed to check if all migrations have been registered. Dir entries read failed"

\* the keys of registeredCopy before the loop
RegisteredCopy(migs) == {migs[k].version : k \in DOMAIN migs}

\* HasAllMigrationsRegistered with the loop deleting from registry.migrations
\* itself, not from a copy of it
HasAllMigrationsRegisteredInPlace(migs, readable, entries, iter) ==
    IF ~readable
    THEN [all |-> FALSE, missing |-> <<>>, extra |-> <<>>, err |-> ErrReadDir,
          migrations |-> migs]
    ELSE LET scan == ScanDir(ReadDir(entries), RegisteredCopy(migs), <<>>)
             extra == [i \in DOMAIN iter |-> ExtraName(iter[i])]
         IN  [all |-> Len(scan.missing) = 0 /\ Len(extra) = 0,
              missing |-> scan.missing,
              extra |-> extra,
              err |-> NoError,
              migrations |-> [k \in {j \in DOMAIN migs : migs[j].version \in scan.registeredCopy}
                                 |-> migs[k]]]

\* HasAllMigrationsRegistered; iter is the order in which the last loop visits
\* what is left of registeredCopy. The loop over the directory deletes from
\* registeredCopy, a map of its own: registry.migrations is left as it is.
HasAllMigrationsRegistered(migs, readable, entries, iter) ==
    IF ~readable
    THEN [all |-> FALSE, missing |-> <<>>, extra |-> <<>>, err |-> ErrReadDir,
          migrations |-> migs]
    ELSE LET scan == ScanDir(ReadDir(entries), RegisteredCopy(migs), <<>>)
             extra == [i \in DOMAIN iter |-> ExtraName(iter[i])]
         IN  [all |-> Len(scan.missing) = 0 /\ Len(extra) = 0,
              missing |-> scan.missing,
              extra |-> extra,
              err |-> NoError,
              migrations |-> migs]

\* what is left of registeredCopy after the loop over the directory
LeftRegistered(migs, readable, entries) ==
    IF ~readable THEN {}
    ELSE ScanDir(ReadDir(entries), RegisteredCopy(migs), <<>>).registeredCopy

\* NewEmptyDirMigrationsRegistry on a directory with some contents
InitDir ==
    /\ migrations = NewGenericRegistry
    /\ registered = <<>>
    /\ dirReadable \in BOOLEAN
    /\ dirEntries \in Directories
    /\ ret = NoCall
    /\ tableExists = FALSE
    /\ rows = {}
    /\ lastWrite = <<>>
    /\ run = NoRun
    /\ locks = NoLocks
    /\ procs = NoProcs

HasAllMigrationsRegisteredCall ==
    \E iter \in Orderings(LeftRegistered(migrations, dirReadable, dirEntries)) :
        LET r == HasAllMigrationsRegistered(migrations, dirReadable, dirEntries, iter)
        IN  /\ ret' = [op |-> "HasAllMigrationsRegistered", all |-> r.all,
                       missing |-> r.missing, extra |-> r.extra, err |-> r.err,
                       before |-> migrations]
            /\ migrations' = r.migrations
            /\ UNCHANGED <<registered, dirVars, dbVars, runVars, guardVars>>

\* the longest allMigrations slice NewDirMigrationsRegistry is tried with
MaxAllMigrations == 2

AllMigrationsSlices == UNION {[1..n -> DirMigrations] : n \in 0..MaxAllMigrations}

NoPanic == [kind |-> "none"]

\* panic(fmt.Errorf("failed to register migration %d: %w", mig.Version(), regErr))
RegisterPanic(version, regErr) ==
    [kind |-> "failed to register migration", version |-> FormatUint(version), err |-> regErr]

\* panic(fmt.Errorf("registry has invalid state: %w", registryErr))
InvalidStateErrorPanic(registryErr) ==
    [kind |-> "registry has invalid state", err |-> registryErr]

\* panic(fmt.Errorf("registry has invalid state. %s. Not registered: %s. Extra migrations: %s", ...))
InvalidStatePanic(notRegistered, extra) ==
    [kind |-> "registry has invalid state. You must register all migrations before running migrations",
     notRegistered |-> notRegistered, extra |-> extra]

CommaSpace == <<",", " ">>

None == <<"n", "o", "n", "e">>

\* strings.Join
RECURSIVE Join(_, _)
Join(elems, sep) ==
    IF elems = <<>> THEN <<>>
    ELSE IF Len(elems) = 1 THEN elems[1]
    ELSE elems[1] \o sep \o Join(Tail(elems), sep)

\* if s == "" { s = "none" }
NoneIfEmpty(str) == IF str = <<>> THEN None ELSE str

\* AssertValidRegistry: the panic it raises, NoPanic when it returns
AssertValidRegistry(migs, readable, entries, iter) ==
    LET r == HasAllMigrationsRegistered(migs, readable, entries, iter)
    IN  IF r.err # NoError THEN InvalidStateErrorPanic(r.err)
        ELSE IF ~r.all
        THEN InvalidStatePanic(NoneIfEmpty(Join(r.missing, CommaSpace)),
                               NoneIfEmpty(Join(r.extra, CommaSpace)))
        ELSE NoPanic

\* the loop over allMigrations: stops with a panic at the first Register that fails
RECURSIVE RegisterAll(_, _)
RegisterAll(migs, allMigrations) ==
    IF allMigrations = <<>> THEN [migrations |-> migs, panic |-> NoPanic]
    ELSE LET r == Register(migs, Head(allMigrations))
         IN  IF r.err # NoError
             THEN [migrations |-> migs,
                   panic |-> RegisterPanic(Head(allMigrations).version, r.err)]
             ELSE RegisterAll(r.migrations, Tail(allMigrations))

\* NewDirMigrationsRegistry: the registry it returns, or the panic it raises
NewDirMigrationsRegistry(readable, entries, allMigrations, iter) ==
    LET built == RegisterAll(NewGenericRegistry, allMigrations)
        panic == IF built.panic # NoPanic THEN built.panic
                 ELSE AssertValidRegistry(built.migrations, readable, entries, iter)
    IN  [migrations |-> IF panic = NoPanic THEN built.migrations ELSE NewGenericRegistry,
         panic |-> panic]

\* the host builds its registry with NewDirMigrationsRegistry in place of
\* NewEmptyDirMigrationsRegistry, before any call on it; after a panic it has no
\* registry
NewDirMigrationsRegistryCall(allMigrations) ==
    LET built == RegisterAll(NewGenericRegistry, allMigrations).migrations
    IN  /\ ret = NoCall
        /\ \E iter \in Orderings(LeftRegistered(built, dirReadable, dirEntries)) :
            LET r == NewDirMigrationsRegistry(dirReadable, dirEntries, allMigrations, iter)
            IN  /\ migrations' = r.migrations
                /\ registered' = IF r.panic = NoPanic
                                 THEN [i \in DOMAIN allMigrations |-> allMigrations[i].version]
                                 ELSE <<>>
                /\ ret' = [op |-> "NewDirMigrationsRegistry", arg |-> allMigrations,
                           panic |-> r.panic]
                /\ UNCHANGED <<dirVars, dbVars, runVars, guardVars>>

NextDir ==
    \/ \E m \in DirMigrations : RegisterCall(m)
    \/ HasAllMigrationsRegisteredCall
    \/ \E allMigrations \in AllMigrationsSlices : NewDirMigrationsRegistryCall(allMigrations)

SpecDir == InitDir /\ [][NextDir]_vars

\* the versions the directory's migration files declare
DeclaredVersions == {v \in DirVersions : File(DecimalFileName(v)) \in dirEntries}

\* the directory holds migration files only, each named version_<decimal>.go
OnlyMigrationFiles == dirEntries \subseteq DecimalEntries

\* C6: with registered versions R and a directory whose migration files declare
\* the versions D, one call returns allRegistered = (R = D), missing = the file
\* names of D \ R and extra = the file names of R \ D, both in the same call.
C6_ValidatorReportsBothDifferences ==
    (ret.op = "HasAllMigrationsRegistered" /\ ret.err = NoError /\ OnlyMigrationFiles) =>
        LET R == ToSet(registered)
            D == DeclaredVersions
        IN  /\ ret.all = (R = D)
            /\ ToSet(ret.missing) = {DecimalFileName(v) : v \in D \ R}
            /\ ToSet(ret.extra) = {DecimalFileName(v) : v \in R \ D}

\* C6 for versions below 2^63 (the int range of strconv.Atoi and strconv.Itoa)
C6_HoldsBelowSignBit ==
    (/\ ret.op = "HasAllMigrationsRegistered"
     /\ ret.err = NoError
     /\ OnlyMigrationFiles
     /\ \A v \in ToSet(registered) \cup DeclaredVersions : ~IsNegative64(v)) =>
        LET R == ToSet(registered)
            D == DeclaredVersions
        IN  /\ ret.all = (R = D)
            /\ ToSet(ret.missing) = {DecimalFileName(v) : v \in D \ R}
            /\ ToSet(ret.extra) = {DecimalFileName(v) : v \in R \ D}

\* one call has returned a missing file and an extra migration, next to a
\* version that is registered and has its file
C6_BothListsReached ==
    /\ ret.op = "HasAllMigrationsRegistered"
    /\ OnlyMigrationFiles
    /\ Len(ret.missing) = 1
    /\ Len(ret.extra) = 1
    /\ Cardinality(dirEntries) = 2
    /\ Len(registered) = 2

\* the versions of a slice of migrations
SliceVersions(allMigrations) == {allMigrations[i].version : i \in DOMAIN allMigrations}

\* the positions of a slice whose version has appeared earlier in the slice
Duplicates(allMigrations) ==
    {j \in DOMAIN allMigrations : \E i \in 1..(j - 1) :
        allMigrations[i].version = allMigrations[j].version}

FirstDuplicate(allMigrations) ==
    CHOOSE j \in Duplicates(allMigrations) : \A k \in Duplicates(allMigrations) : j <= k

\* the ways a message can list a set of file names: joined in some order, or "none"
Listings(names) == {NoneIfEmpty(Join(order, CommaSpace)) : order \in Orderings(names)}

\* the call returned the registry of allMigrations
ReturnedRegistry(allMigrations) ==
    /\ ret.panic = NoPanic
    /\ DOMAIN migrations = SliceVersions(allMigrations)
    /\ \A i \in DOMAIN allMigrations : migrations[allMigrations[i].version] = allMigrations[i]

\* the call panicked at the first Register of a version that was in already
PanickedOnDuplicate(allMigrations) ==
    ret.panic = RegisterPanic(allMigrations[FirstDuplicate(allMigrations)].version,
                              ErrAlreadyRegistered)

\* the call panicked with both lists of the mismatch of R and D
PanickedWithBothLists(R, D) ==
    /\ ret.panic.kind = InvalidStatePanic(None, None).kind
    /\ ret.panic.notRegistered \in Listings({DecimalFileName(v) : v \in D \ R})
    /\ ret.panic.extra \in Listings({DecimalFileName(v) : v \in R \ D})

C18_WitnessReturned ==
    /\ ret.op = "NewDirMigrationsRegistry"
    /\ ret.panic = NoPanic
    /\ Count(migrations) = 2

\* the constructor has panicked on a duplicate
C18_WitnessDuplicate ==
    /\ ret.op = "NewDirMigrationsRegistry"
    /\ ret.panic = RegisterPanic(U(2), ErrAlreadyRegistered)

\* the constructor has panicked with "none" for the extra migrations
C18_WitnessNone ==
    /\ ret.op = "NewDirMigrationsRegistry"
    /\ ret.panic.kind = InvalidStatePanic(None, None).kind
    /\ ret.panic.extra = None
    /\ ret.panic.notRegistered # None

\* the constructor has panicked on an unreadable directory
C18_WitnessUnreadable ==
    /\ ret.op = "NewDirMigrationsRegistry"
    /\ ~dirReadable
    /\ ret.panic = InvalidStateErrorPanic(ErrReadDir)

\* ------------------------------- the directory-backed registry over its lifetime
\* DirMigrationsRegistry embeds GenericRegistry: the calls of both on one registry
LifetimeVersions == {U(1), U(2)}

LifetimeMigrations == [id : MigrationIds, version : LifetimeVersions]

LifetimeSlices == UNION {[1..n -> LifetimeMigrations] : n \in 0..MaxAllMigrations}

LifetimeDirectories ==
    {d \in Directories : d \subseteq {File(FileName(v)) : v \in LifetimeVersions}}

InitLifetime ==
    /\ migrations = NewGenericRegistry
    /\ registered = <<>>
    /\ dirReadable \in BOOLEAN
    /\ dirEntries \in LifetimeDirectories
    /\ ret = NoCall
    /\ tableExists = FALSE
    /\ rows = {}
    /\ lastWrite = <<>>
    /\ run = NoRun
    /\ locks = NoLocks
    /\ procs = NoProcs

NextLifetime ==
    \/ \E allMigrations \in LifetimeSlices : NewDirMigrationsRegistryCall(allMigrations)
    \/ \E m \in LifetimeMigrations : RegisterCall(m)
    \/ \E v \in LifetimeVersions : GetCall(v)
    \/ CountCall
    \/ OrderedVersionsCall
    \/ OrderedMigrationsCall
    \/ HasAllMigrationsRegisteredCall

SpecLifetime == InitLifetime /\ [][NextLifetime]_vars

\* the calls that put migrations into the registry
PopulatingCalls == {"Register", "NewDirMigrationsRegistry"}

C23_WitnessBuilt ==
    /\ ret.op = "HasAllMigrationsRegistered"
    /\ ret.all
    /\ registered = <<U(2), U(1)>>
    /\ Get(migrations, U(2)) = [id |-> "m2", version |-> U(2)]

\* ------------------------------------------------------------- auto-discovery
\* the struct types a migrations package can declare: two whose pointer
\* implements Migration, and one that does not
PackageTypeUniverse ==
    {[name |-> "Migration1", implements |-> TRUE, version |-> U(1)],
     [name |-> "Migration2", implements |-> TRUE, version |-> U(2)],
     [name |-> "Helper", implements |-> FALSE, version |-> Zero64]}

Packages == SUBSET PackageTypeUniverse \ {{}}

\* the most package examples a call is given
MaxExamples == 2

\* config.PackageTypes: pointers to values of types of the package
PackageExamples(package) == UNION {[1..n -> package] : n \in 1..MaxExamples}

\* reflect.New(pkgTypeInfo) with its fields set: the migration of a type
Instantiate(type) == [id |-> type.name, version |-> type.version]

\* DiscoverMigrations: the loop over config.PackageTypes appends an instance of
\* each example type whose pointer implements Migration
RECURSIVE DiscoverMigrations(_)
DiscoverMigrations(packageTypes) ==
    IF packageTypes = <<>> THEN <<>>
    ELSE IF Head(packageTypes).implements
    THEN <<Instantiate(Head(packageTypes))>> \o DiscoverMigrations(Tail(packageTypes))
    ELSE DiscoverMigrations(Tail(packageTypes))

\* NewAutoDiscoveryDirMigrationsRegistry: DiscoverMigrations, then NewDirMigrationsRegistry
NewAutoDiscoveryDirMigrationsRegistry(readable, entries, packageExamples, iter) ==
    NewDirMigrationsRegistry(readable, entries, DiscoverMigrations(packageExamples), iter)

\* the host builds its registry by auto-discovery from examples of its package
NewAutoDiscoveryDirMigrationsRegistryCall(package, packageExamples) ==
    LET discovered == DiscoverMigrations(packageExamples)
        built == RegisterAll(NewGenericRegistry, discovered).migrations
    IN  /\ ret = NoCall
        /\ \E iter \in Orderings(LeftRegistered(built, dirReadable, dirEntries)) :
            LET r == NewAutoDiscoveryDirMigrationsRegistry(dirReadable, dirEntries,
                                                           packageExamples, iter)
            IN  /\ migrations' = r.migrations
                /\ registered' = IF r.panic = NoPanic THEN VersionsOf(discovered) ELSE <<>>
                /\ ret' = [op |-> "NewAutoDiscoveryDirMigrationsRegistry",
                           package |-> package, arg |-> packageExamples,
                           discovered |-> discovered, panic |-> r.panic]
                /\ UNCHANGED <<dirVars, dbVars, runVars, guardVars>>

InitDiscovery ==
    /\ migrations = NewGenericRegistry
    /\ registered = <<>>
    /\ dirReadable \in BOOLEAN
    /\ dirEntries \in LifetimeDirectories
    /\ ret = NoCall
    /\ tableExists = FALSE
    /\ rows = {}
    /\ lastWrite = <<>>
    /\ run = NoRun
    /\ locks = NoLocks
    /\ procs = NoProcs

NextDiscovery ==
    \/ \E package \in Packages : \E packageExamples \in PackageExamples(package) :
          NewAutoDiscoveryDirMigrationsRegistryCall(package, packageExamples)
    \/ CountCall
    \/ \E v \in LifetimeVersions : GetCall(v)

SpecDiscovery == InitDiscovery /\ [][NextDiscovery]_vars

\* the migrations of a package: an instance of each type whose pointer implements Migration
MigrationsOfPackage(package) == {Instantiate(type) : type \in {t \in package : t.implements}}

\* C24: auto-discovery from examples of a package discovers every type of the
\* package that implements Migration, and the registry it returns holds them all.
C24_DiscoversWholePackage ==
    ret.op = "NewAutoDiscoveryDirMigrationsRegistry" =>
        /\ ToSet(ret.discovered) = MigrationsOfPackage(ret.package)
        /\ ret.panic = NoPanic =>
              \A m \in MigrationsOfPackage(ret.package) : Get(migrations, m.version) = m

\* what does hold: the discovered migrations are the instances of the example
\* types that implement Migration, one per example, in the examples' order
C24_DiscoversExamplesOnly ==
    ret.op = "NewAutoDiscoveryDirMigrationsRegistry" =>
        /\ ToSet(ret.discovered) = MigrationsOfPackage(ToSet(ret.arg))
        /\ ret.discovered = DiscoverMigrations(ret.arg)
        /\ ret.panic = NoPanic => ToSet(registered) = ToSet(VersionsOf(ret.discovered))

\* one example of a package of two migration types was given, and the registry
\* that was returned holds the example's type only
C24_OneExampleOneMigration ==
    /\ ret.op = "NewAutoDiscoveryDirMigrationsRegistry"
    /\ Cardinality(MigrationsOfPackage(ret.package)) = 2
    /\ Len(ret.arg) = 1
    /\ ret.panic = NoPanic
    /\ Count(migrations) = 1

\* ------------------------------------- directories with entries of other names
Version1 == <<"1">>

Version2 == <<"2">>

\* entries that are not migration files: a sub-directory, a file without the
\* prefix, a file whose version part is no number, a file without the suffix,
\* a file with the prefix twice, a file with the suffix twice
ForeignEntries ==
    {Dir(FileName(U(2))),
     File(<<"r", "e", "a", "d", "m", "e">>),
     File(FileNamePrefix \o FileNameSeparator \o <<"x">> \o GoSuffix),
     File(FileNamePrefix \o FileNameSeparator \o Version1),
     File(FileNamePrefix \o FileNameSeparator \o FileNamePrefix \o FileNameSeparator
              \o Version2 \o GoSuffix),
     File(FileNamePrefix \o FileNameSeparator \o Version2 \o GoSuffix \o GoSuffix)}

\* the most entries such a directory holds
MaxForeignEntries == 2

EntryDirectories ==
    {d \in SUBSET ({File(FileName(v)) : v \in LifetimeVersions} \cup ForeignEntries) :
        /\ Cardinality(d) <= MaxForeignEntries
        /\ \A e1, e2 \in d : e1.name = e2.name => e1 = e2}

InitEntries ==
    /\ migrations = NewGenericRegistry
    /\ registered = <<>>
    /\ dirReadable = TRUE
    /\ dirEntries \in EntryDirectories
    /\ ret = NoCall
    /\ tableExists = FALSE
    /\ rows = {}
    /\ lastWrite = <<>>
    /\ run = NoRun
    /\ locks = NoLocks
    /\ procs = NoProcs

NextEntries ==
    \/ \E m \in [id : {"m1"}, version : LifetimeVersions] : RegisterCall(m)
    \/ HasAllMigrationsRegisteredCall

SpecEntries == InitEntries /\ [][NextEntries]_vars

\* C26: the validator counts an entry as a declared migration exactly when it
\* is a file named prefix, separator, decimal version, suffix; every other
\* entry appears in neither list and does not change allRegistered: the
\* outcome is that of the directory's migration files alone.
C26_OnlyMigrationFilesCount ==
    (ret.op = "HasAllMigrationsRegistered" /\ ret.err = NoError) =>
        LET R == ToSet(registered)
            D == DeclaredVersions
        IN  /\ ret.all = (R = D)
            /\ ToSet(ret.missing) = {DecimalFileName(v) : v \in D \ R}
            /\ ToSet(ret.extra) = {DecimalFileName(v) : v \in R \ D}

\* the entries the validator does pass over: sub-directories, names without the
\* prefix and names in which what TrimLeft and TrimRight leave is no number
Skipped(entry) ==
    \/ entry.isDir
    \/ ~HasPrefix(entry.name, FileNamePrefix \o FileNameSeparator)
    \/ Atoi(TrimRight(TrimLeft(entry.name, FileNamePrefix \o FileNameSeparator), GoSuffix)).err

\* what does hold: C26 for the directories whose foreign entries are of those kinds
C26_SkippedEntriesIgnored ==
    (/\ ret.op = "HasAllMigrationsRegistered"
     /\ ret.err = NoError
     /\ \A entry \in dirEntries \cap ForeignEntries : Skipped(entry)) =>
        LET R == ToSet(registered)
            D == DeclaredVersions
        IN  /\ ret.all = (R = D)
            /\ ToSet(ret.missing) = {DecimalFileName(v) : v \in D \ R}
            /\ ToSet(ret.extra) = {DecimalFileName(v) : v \in R \ D}

\* the validator has reported a file without the suffix as a missing migration
C26_ForeignEntryCounted ==
    /\ ret.op = "HasAllMigrationsRegistered"
    /\ dirEntries = {File(FileNamePrefix \o FileNameSeparator \o Version1)}
    /\ registered = <<>>
    /\ ~ret.all
    /\ ret.missing = <<FileNamePrefix \o FileNameSeparator \o Version1>>

\* the validator has taken a file without the suffix for the file of a registered version
C26_ForeignEntryMatched ==
    /\ ret.op = "HasAllMigrationsRegistered"
    /\ dirEntries = {File(FileNamePrefix \o FileNameSeparator \o Version1)}
    /\ registered = <<U(1)>>
    /\ ret.all

\* the version the validator reads out of a file name
ParsedVersion(name) ==
    Atoi(TrimRight(TrimLeft(name, FileNamePrefix \o FileNameSeparator), GoSuffix)).value

\* the versions the directory's entries declare, as the validator reads them
ParsedVersions == {ParsedVersion(entry.name) : entry \in {e \in dirEntries : ~Skipped(e)}}

\* C27: for every directory content, every file name in missing denotes a
\* version that is not registered, and every name in extra denotes a
\* registered version that no directory file declares.
C27_ListsSound ==
    (ret.op = "HasAllMigrationsRegistered" /\ ret.err = NoError) =>
        /\ \A i \in DOMAIN ret.missing :
              ParsedVersion(ret.missing[i]) \notin DOMAIN ret.before
        /\ \A i \in DOMAIN ret.extra :
              /\ ParsedVersion(ret.extra[i]) \in DOMAIN ret.before
              /\ ParsedVersion(ret.extra[i]) \notin ParsedVersions

\* what does hold: C27 for the directories in which no two entries are read as
\* the same version
C27_SoundWithoutCollision ==
    (/\ ret.op = "HasAllMigrationsRegistered"
     /\ ret.err = NoError
     /\ \A e1, e2 \in dirEntries :
           (~Skipped(e1) /\ ~Skipped(e2) /\ ParsedVersion(e1.name) = ParsedVersion(e2.name))
               => e1 = e2) =>
        /\ \A i \in DOMAIN ret.missing :
              ParsedVersion(ret.missing[i]) \notin DOMAIN ret.before
        /\ \A i \in DOMAIN ret.extra :
              /\ ParsedVersion(ret.extra[i]) \in DOMAIN ret.before
              /\ ParsedVersion(ret.extra[i]) \notin ParsedVersions

\* version 1 is registered, the directory holds version_01.go and version_1.go,
\* and the validator has reported version_1.go as not registered
C27_RegisteredReportedMissing ==
    /\ ret.op = "HasAllMigrationsRegistered"
    /\ registered = <<U(1)>>
    /\ dirEntries = {File(FileName(U(1))),
                     File(FileNamePrefix \o FileNameSeparator \o <<"0", "1">> \o GoSuffix)}
    /\ ret.missing = <<FileName(U(1))>>
    /\ ~ret.all

\* C28: over the whole unsigned 64-bit range, also for versions of 2^63 and
\* above: a registered version whose file version_<decimal>.go is in the
\* directory is matched by it (it appears in neither list, and allRegistered is
\* true when every registered version has its file and every file its
\* version), and every name in extra is the unsigned decimal file name of a
\* registered version.
C28_WholeUnsignedRange ==
    (ret.op = "HasAllMigrationsRegistered" /\ ret.err = NoError /\ OnlyMigrationFiles) =>
        LET R == ToSet(registered)
            D == DeclaredVersions
        IN  /\ R = D => ret.all
            /\ \A v \in R \cap D :
                  /\ DecimalFileName(v) \notin ToSet(ret.missing)
                  /\ DecimalFileName(v) \notin ToSet(ret.extra)
            /\ \A i \in DOMAIN ret.extra : \E v \in R : ret.extra[i] = DecimalFileName(v)
            /\ \A i \in DOMAIN ret.missing : \E v \in D \ R : ret.missing[i] = DecimalFileName(v)

\* what does hold: C28 for versions below 2^63
C28_HoldsBelowSignBit ==
    (/\ ret.op = "HasAllMigrationsRegistered"
     /\ ret.err = NoError
     /\ OnlyMigrationFiles
     /\ \A v \in ToSet(registered) \cup DeclaredVersions : ~IsNegative64(v)) =>
        LET R == ToSet(registered)
            D == DeclaredVersions
        IN  /\ R = D => ret.all
            /\ \A v \in R \cap D :
                  /\ DecimalFileName(v) \notin ToSet(ret.missing)
                  /\ DecimalFileName(v) \notin ToSet(ret.extra)
            /\ \A i \in DOMAIN ret.extra : \E v \in R : ret.extra[i] = DecimalFileName(v)
            /\ \A i \in DOMAIN ret.missing : \E v \in D \ R : ret.missing[i] = DecimalFileName(v)

\* version 2^63 is registered and has its file, and the validator has reported
\* it as extra under a negative name
C28_SignBitVersionUnmatched ==
    /\ ret.op = "HasAllMigrationsRegistered"
    /\ registered = <<MinInt64>>
    /\ dirEntries = {File(DecimalFileName(MinInt64))}
    /\ ~ret.all
    /\ ret.missing = <<>>
    /\ ret.extra = <<FileNamePrefix \o FileNameSeparator \o <<"-">> \o FormatUint(MinInt64)
                         \o GoSuffix>>

\* the outcome of a validator call: the four values it returns
Outcome(call) == <<call.all, call.missing, call.extra, call.err>>

\* the outcome with extra taken as the set of its names
OutcomeUpToOrder(call) == <<call.all, call.missing, ToSet(call.extra), Len(call.extra), call.err>>

\* a call of the validator leaves the registry as it was: Count, OrderedVersions
\* and Get of every version give what they gave before the call
ValidatorLeftRegistry ==
    ret.op = "HasAllMigrationsRegistered" =>
        /\ migrations = ret.before
        /\ Count(migrations) = Count(ret.before)
        /\ DOMAIN migrations = DOMAIN ret.before
        /\ \A iter \in Orderings(DOMAIN migrations) :
              OrderedVersions(migrations, iter) = OrderedVersions(ret.before, iter)
        /\ \A v \in DirVersions : Get(migrations, v) = Get(ret.before, v)

\* C29 as amended: HasAllMigrationsRegistered is read-only for the registry in
\* every outcome, the inconsistent one and the read error included, and a
\* second call on the unchanged directory returns the same allRegistered, the
\* same missing, the same error and the same names in extra; the order of the
\* names in extra can differ from call to call.
C29_ValidatorReadOnly ==
    /\ []ValidatorLeftRegistry
    /\ [][(ret.op = "HasAllMigrationsRegistered" /\ ret'.op = "HasAllMigrationsRegistered")
             => OutcomeUpToOrder(ret') = OutcomeUpToOrder(ret)]_vars

\* C29 as stated: a second call on the unchanged directory returns the same
\* outcome, lists included
C29_SameOutcomeTwice ==
    [][(ret.op = "HasAllMigrationsRegistered" /\ ret'.op = "HasAllMigrationsRegistered")
          => Outcome(ret') = Outcome(ret)]_vars

\* the validator has found a file not registered and two migrations without a
\* file, and the registry still holds its two migrations
C29_Witness ==
    /\ ret.op = "HasAllMigrationsRegistered"
    /\ ~ret.all
    /\ Len(ret.missing) = 1
    /\ Len(ret.extra) = 2
    /\ Count(migrations) = 2
    /\ dirReadable

\* the validator has failed to read the directory, and the registry still
\* holds its migration
C29_WitnessReadError ==
    /\ ret.op = "HasAllMigrationsRegistered"
    /\ ret.err = ErrReadDir
    /\ Count(migrations) = 1

\* ---------------------------------------------- Reconciler and Runner (spec 4.3, 4.4)
\* the largest step count an ordered run is started with, next to "all"
MaxSteps == 2

StepCounts == 0..MaxSteps

\* the migrations the host registers before it runs anything
RunMigrations == [id : {"m1"}, version : Versions]

ErrInconsistent == "execution without a registered migration"

ErrNotRegistered == "migration not registered"

ErrStep == "migration failed"

\* the Migration method an operation invokes
Method(op) == IF op \in {"Up", "ForceUp"} THEN "Up" ELSE "Down"

Min(a, b) == IF a <= b THEN a ELSE b

\* the number of steps a run over n pending migrations takes
Limit(all, steps, n) == IF all THEN n ELSE Min(steps, n)

Reverse(s) == [i \in DOMAIN s |-> s[Len(s) + 1 - i]]

ExecutedVersions(executions) == {executions[i].Version : i \in DOMAIN executions}

\* pending-up: the registered versions without an execution, ascending
PendingUp(ordered, executions) ==
    LET NotExecuted(m) == m.version \notin ExecutedVersions(executions)
        pending == SelectSeq(ordered, NotExecuted)
    IN  [i \in DOMAIN pending |-> pending[i].version]

\* pending-down: the executed versions with a registered migration, descending
PendingDown(ordered, executions) ==
    LET Executed(m) == m.version \in ExecutedVersions(executions)
        pending == SelectSeq(ordered, Executed)
    IN  Reverse([i \in DOMAIN pending |-> pending[i].version])

\* consistency check: every execution has a registered migration
Consistent(migs, executions) ==
    \A i \in DOMAIN executions : Get(migs, executions[i].Version) # NilMigration

\* what Stats reports
StatsOf(migs, ordered, executions) ==
    [registered |-> Count(migs),
     executed |-> Len(executions),
     pendingUp |-> Len(PendingUp(ordered, executions)),
     pendingDown |-> Len(PendingDown(ordered, executions)),
     consistent |-> Consistent(migs, executions)]

Halt(r, err, version) == [r EXCEPT !.phase = "Halted", !.err = err, !.failed = version]

\* the version of the step the run is at
CurrentVersion(r) == r.plan[Len(r.completed) + 1]

\* the execution of the step the run is at: the one the ledger holds for the
\* version when the run loaded it, else the record of this step
StepExecution(r, finishedAtMs) ==
    IF Method(r.op) = "Down" /\ \E e \in r.loaded : e.Version = CurrentVersion(r)
    THEN CHOOSE e \in r.loaded : e.Version = CurrentVersion(r)
    ELSE [Version |-> CurrentVersion(r), ExecutedAtMs |-> r.startMs,
          FinishedAtMs |-> finishedAtMs]

\* the host has created the executions table and built an empty registry
InitRunner ==
    /\ migrations = NewGenericRegistry
    /\ registered = <<>>
    /\ dirReadable = TRUE
    /\ dirEntries = {}
    /\ tableExists = TRUE
    /\ rows = {}
    /\ lastWrite = <<>>
    /\ run = NoRun
    /\ locks = NoLocks
    /\ procs = NoProcs
    /\ ret = NoCall

\* the composition point registers the migrations, before any run
Populate(m) ==
    /\ run = NoRun
    /\ locks = NoLocks
    /\ procs = NoProcs
    /\ RegisterCall(m)

\* a registration conflict is fatal at startup: nothing runs after it
RegistryBuilt == IF ret.op = "Register" THEN ret.err = NoError ELSE TRUE

\* Up(steps), Down(steps), Stats(): Idle -> Reconciling
StartRun(op, all, steps) ==
    /\ RegistryBuilt
    /\ run.phase \in {"Idle", "Halted"}
    /\ run' = [NoRun EXCEPT !.phase = "Reconciling", !.op = op, !.all = all,
                            !.steps = steps, !.before = rows, !.registry = migrations]
    /\ UNCHANGED <<regVars, dirVars, dbVars, ret, guardVars>>

\* ForceUp(version), ForceDown(version): no reconciliation, the migration is
\* looked up in the registry
Force(op, version) ==
    /\ RegistryBuilt
    /\ run.phase \in {"Idle", "Halted"}
    /\ run' = IF Get(migrations, version) = NilMigration
              THEN Halt([NoRun EXCEPT !.op = op, !.before = rows, !.registry = migrations],
                        ErrNotRegistered, version)
              ELSE [NoRun EXCEPT !.phase = "Applying", !.op = op, !.all = TRUE,
                                 !.plan = <<version>>, !.before = rows,
                                 !.registry = migrations]
    /\ UNCHANGED <<regVars, dirVars, dbVars, ret, guardVars>>

\* Reconciling: load the executions, order the migrations, check, plan
Reconcile(dbOk) ==
    /\ run.phase = "Reconciling"
    /\ \E resultRows \in Orderings(rows), iter \in Orderings(DOMAIN migrations) :
        LET load == LoadExecutions(CurrentDb, resultRows, dbOk)
            ordered == OrderedMigrations(migrations, iter)
            plan == IF run.op = "Down" THEN PendingDown(ordered, load.executions)
                    ELSE PendingUp(ordered, load.executions)
            loaded == [run EXCEPT !.loaded = ToSet(load.executions)]
        IN  run' = IF load.err # NoError THEN Halt(run, load.err, Zero64)
                   ELSE IF run.op = "Stats"
                   THEN [loaded EXCEPT !.phase = "Idle", !.reconciled = TRUE,
                                       !.stats = StatsOf(migrations, ordered, load.executions)]
                   ELSE IF ~Consistent(migrations, load.executions)
                   THEN Halt(loaded, ErrInconsistent, Zero64)
                   ELSE [loaded EXCEPT !.reconciled = TRUE, !.plan = plan,
                                       !.phase = IF Limit(run.all, run.steps, Len(plan)) = 0
                                                 THEN "Idle" ELSE "Applying"]
    /\ UNCHANGED <<regVars, dirVars, dbVars, ret, guardVars>>

\* Applying(i): the step's start time is taken, then Up() or Down() is invoked
InvokeMigration(ok, startMs) ==
    /\ run.phase = "Applying"
    /\ run.step = "invoke"
    /\ LET called == [run EXCEPT !.calls = Append(@, [version |-> CurrentVersion(run),
                                                     method |-> Method(run.op),
                                                     ok |-> ok])]
       IN  run' = IF ok THEN [called EXCEPT !.step = "persist", !.startMs = startMs]
                  ELSE Halt(called, ErrStep, CurrentVersion(run))
    /\ UNCHANGED <<regVars, dirVars, dbVars, ret, guardVars>>

\* Applying(i): the step's record is saved (Up) or removed (Down), then the run
\* goes on to the next step or ends
PersistStep(dbOk, finishedAtMs) ==
    /\ run.phase = "Applying"
    /\ run.step = "persist"
    /\ ~U64Less(finishedAtMs, run.startMs)
    /\ LET execution == StepExecution(run, finishedAtMs)
           r == IF Method(run.op) = "Up" THEN Save(CurrentDb, execution, dbOk)
                ELSE Remove(CurrentDb, execution, dbOk)
           done == [run EXCEPT !.completed = Append(@, CurrentVersion(run)),
                               !.step = "invoke", !.startMs = Zero64]
       IN  /\ tableExists' = r.db.tableExists
           /\ rows' = r.db.rows
           /\ run' = IF r.err # NoError THEN Halt(run, r.err, CurrentVersion(run))
                     ELSE IF Len(done.completed) = Limit(run.all, run.steps, Len(run.plan))
                     THEN [done EXCEPT !.phase = "Idle"]
                     ELSE done
    /\ UNCHANGED <<regVars, dirVars, lastWrite, ret, guardVars>>

\* the process ends; the next one builds its registry anew, the ledger stays
Restart ==
    /\ run.phase \in {"Idle", "Halted"}
    /\ run # NoRun \/ ~RegistryBuilt
    /\ migrations' = NewGenericRegistry
    /\ registered' = <<>>
    /\ run' = NoRun
    /\ ret' = NoCall
    /\ UNCHANGED <<dirVars, dbVars, guardVars>>

NextRunner ==
    \/ \E m \in RunMigrations : Populate(m)
    \/ \E op \in {"Up", "Down"}, steps \in StepCounts : StartRun(op, FALSE, steps)
    \/ \E op \in {"Up", "Down", "Stats"} : StartRun(op, TRUE, 0)
    \/ \E op \in {"ForceUp", "ForceDown"}, v \in Versions : Force(op, v)
    \/ \E dbOk \in BOOLEAN : Reconcile(dbOk)
    \/ \E ok \in BOOLEAN, t \in Timestamps : InvokeMigration(ok, t)
    \/ \E dbOk \in BOOLEAN, t \in Timestamps : PersistStep(dbOk, t)
    \/ Restart

SpecRunner == InitRunner /\ [][NextRunner]_vars

\* ------------------------------------------------------------- claims: runs
\* the versions the run's calls were made on, in call order
CalledVersions == [i \in DOMAIN run.calls |-> run.calls[i].version]

\* the versions the rows of a table are about
Recorded(tableRows) == {r.version : r \in tableRows}

\* the versions of S in strictly ascending order
AscendingSeq(S) == CHOOSE s \in Orderings(S) : StrictlyAscending(s)

RowsOf(tableRows, version) == {r \in tableRows : r.version = version}

\* C3: an Up(steps) run that passed reconciliation visits the pending-up
\* versions (registered, no execution record when the run started) in strictly
\* ascending order whatever the registration order; it never goes beyond
\* min(steps, pending), a run that ends in Idle has applied exactly these
\* lowest versions, every completed step has left exactly one record of its
\* version, and Up(0) or an empty pending set invokes nothing, writes nothing
\* and ends in Idle.
C3_UpAppliesLowestPending ==
    (run.op = "Up" /\ run.reconciled) =>
        LET pending == AscendingSeq(ToSet(registered) \ Recorded(run.before))
            n == Limit(run.all, run.steps, Len(pending))
        IN  /\ Len(run.calls) <= n
            /\ CalledVersions = SubSeq(pending, 1, Len(run.calls))
            /\ \A i \in DOMAIN run.calls : run.calls[i].method = "Up"
            /\ run.phase = "Idle" => run.completed = SubSeq(pending, 1, n)
            /\ \A v \in ToSet(run.completed) :
                    \E r \in rows : /\ RowsOf(rows, v) = {r}
                                    /\ ~U64Less(r.finished_at_ms, r.executed_at_ms)
            /\ Recorded(rows) = Recorded(run.before) \cup ToSet(run.completed)
            /\ run.before \subseteq rows
            /\ n = 0 => run.phase = "Idle" /\ run.calls = <<>> /\ rows = run.before

\* Up(2) with versions registered as 3, 2, 1 and version 2 already recorded has
\* applied 1 and then 3
C3_Witness ==
    /\ run.op = "Up" /\ run.phase = "Idle" /\ ~run.all /\ run.steps = 2
    /\ registered = <<U(3), U(2), U(1)>>
    /\ Recorded(run.before) = {U(2)}
    /\ run.completed = <<U(1), U(3)>>
    /\ Cardinality(rows) = 3

\* C4: a Down(steps) run that passed reconciliation visits the pending-down
\* versions (recorded when the run started and registered) in strictly
\* descending order, at most min(steps, pending) of them; each completed step
\* has removed its version's record and nothing else changed; a run that ends
\* in Idle has reverted exactly the highest ones, and after a successful
\* Down(all) no record of a registered version is left.
C4_DownRevertsHighestExecuted ==
    (run.op = "Down" /\ run.reconciled) =>
        LET pending == Reverse(AscendingSeq(ToSet(registered) \cap Recorded(run.before)))
            n == Limit(run.all, run.steps, Len(pending))
        IN  /\ Len(run.calls) <= n
            /\ CalledVersions = SubSeq(pending, 1, Len(run.calls))
            /\ \A i \in DOMAIN run.calls : run.calls[i].method = "Down"
            /\ run.phase = "Idle" => run.completed = SubSeq(pending, 1, n)
            /\ rows = {r \in run.before : r.version \notin ToSet(run.completed)}
            /\ (run.phase = "Idle" /\ run.all) =>
                    Recorded(rows) \cap ToSet(registered) = {}

\* Down(all) with records of 1, 2 and 3 has reverted 3, then 2, then 1
C4_Witness ==
    /\ run.op = "Down" /\ run.phase = "Idle" /\ run.all
    /\ Recorded(run.before) = {U(1), U(2), U(3)}
    /\ run.completed = <<U(3), U(2), U(1)>>
    /\ rows = {}

\* Down(1) has reverted the highest of two recorded versions only
C4_WitnessOneStep ==
    /\ run.op = "Down" /\ run.phase = "Idle" /\ ~run.all /\ run.steps = 1
    /\ Recorded(run.before) = {U(1), U(3)}
    /\ run.completed = <<U(3)>>
    /\ Recorded(rows) = {U(1)}

\* C5: in an ordered run a failed Up() or Down() is the last call of the run
\* and the run is Halted from the moment it fails, naming the version; the
\* steps before it completed and their ledger effects are there, none of them
\* was reverted; a failed Up() has no record of its version, a failed Down()
\* has left the record of its version as it was.
C5_StepFailureHalts ==
    (run.op \in {"Up", "Down"} /\ run.calls # <<>>) =>
        LET k == Len(run.calls)
            last == run.calls[k]
        IN  /\ \A i \in 1..(k - 1) : run.calls[i].ok
            /\ \A i \in 1..k : run.calls[i].method = run.op
            /\ ~last.ok =>
                /\ run.phase = "Halted"
                /\ run.err = ErrStep
                /\ run.failed = last.version
                /\ run.completed = SubSeq(CalledVersions, 1, k - 1)
                /\ run.op = "Up" =>
                    /\ Recorded(rows) = Recorded(run.before) \cup ToSet(run.completed)
                    /\ run.before \subseteq rows
                    /\ last.version \notin Recorded(rows)
                /\ run.op = "Down" =>
                    /\ rows = {r \in run.before : r.version \notin ToSet(run.completed)}
                    /\ RowsOf(rows, last.version) # {}
                    /\ RowsOf(rows, last.version) = RowsOf(run.before, last.version)

\* Up() failed on the second of three pending migrations: one record, the third
\* never invoked
C5_Witness ==
    /\ run.op = "Up" /\ run.phase = "Halted" /\ run.all
    /\ run.before = {}
    /\ Len(run.plan) = 3
    /\ Len(run.calls) = 2 /\ ~run.calls[2].ok
    /\ run.failed = U(2)
    /\ Recorded(rows) = {U(1)}

\* Down() failed on the second of three recorded migrations
C5_WitnessDown ==
    /\ run.op = "Down" /\ run.phase = "Halted" /\ run.all
    /\ Len(run.plan) = 3
    /\ Len(run.calls) = 2 /\ ~run.calls[2].ok
    /\ run.failed = U(2)
    /\ Recorded(rows) = {U(1), U(2)}

\* the recorded versions the run found without a registered migration
Orphans == Recorded(run.before) \ ToSet(registered)

\* C12: when the ledger holds a record whose version has no registered
\* migration, an ordered Up or Down that is past reconciliation is Halted with
\* an error (the inconsistency, unless loading the ledger failed first), has
\* invoked no migration and has left the ledger as it was; Stats on the same
\* ledger ends in Idle without an error and reports the ledger as inconsistent.
C12_OrphanRecordStopsOrderedRuns ==
    (Orphans # {} /\ run.phase # "Reconciling") =>
        /\ run.op \in {"Up", "Down"} =>
              /\ run.phase = "Halted"
              /\ run.err \in {ErrInconsistent, ErrConnection}
              /\ ~run.reconciled
              /\ run.calls = <<>>
              /\ rows = run.before
        /\ (run.op = "Stats" /\ run.err # ErrConnection) =>
              /\ run.phase = "Idle"
              /\ run.err = NoError
              /\ ~run.stats.consistent

\* Down was refused on a ledger with a record of an unregistered version next
\* to a record of a registered one
C12_Witness ==
    /\ run.op = "Down" /\ run.phase = "Halted" /\ run.err = ErrInconsistent
    /\ Orphans # {}
    /\ Recorded(run.before) \cap ToSet(registered) # {}

\* Up was refused although a registered version is pending
C12_WitnessUp ==
    /\ run.op = "Up" /\ run.phase = "Halted" /\ run.err = ErrInconsistent
    /\ Orphans # {}
    /\ ToSet(registered) \ Recorded(run.before) # {}

\* Stats has reported an inconsistent ledger
C12_WitnessStats ==
    /\ run.op = "Stats" /\ run.phase = "Idle"
    /\ Orphans # {}
    /\ ~run.stats.consistent

\* the rows of a table that are about other versions than `version`
OtherRows(tableRows, version) == {r \in tableRows : r.version # version}

\* C13: ForceUp(v) and ForceDown(v) never meet the consistency check or the
\* pending sets.  For an unregistered v the run fails at once, has invoked
\* nothing and left the ledger as it was.  For a registered v the only call is
\* Up() (ForceUp) or Down() (ForceDown) of v, whatever the ledger records; a run
\* that ends in Idle has left exactly one record of v (ForceUp) or none
\* (ForceDown, also when there was none) and the other records as they were;
\* a run that ends Halted has left the ledger as it was.
C13_ForceIgnoresLedgerState ==
    run.op \in {"ForceUp", "ForceDown"} =>
        /\ run.err # ErrInconsistent
        /\ ~run.reconciled
        /\ IF run.plan = <<>>
           THEN /\ run.phase = "Halted"
                /\ run.err = ErrNotRegistered
                /\ run.failed \notin ToSet(registered)
                /\ run.calls = <<>>
                /\ rows = run.before
           ELSE LET v == run.plan[1]
                IN  /\ run.plan = <<v>>
                    /\ v \in ToSet(registered)
                    /\ Len(run.calls) <= 1
                    /\ \A i \in DOMAIN run.calls :
                          /\ run.calls[i].version = v
                          /\ run.calls[i].method = Method(run.op)
                    /\ run.phase = "Idle" =>
                          /\ Len(run.calls) = 1
                          /\ run.calls[1].ok
                          /\ OtherRows(rows, v) = OtherRows(run.before, v)
                          /\ Cardinality(RowsOf(rows, v)) = IF run.op = "ForceUp" THEN 1 ELSE 0
                    /\ run.phase # "Idle" => rows = run.before
                    /\ run.phase = "Halted" => run.err \in {ErrStep, ErrConnection}

\* ForceUp has succeeded for a version that had a record already, on a ledger
\* that also holds a record of an unregistered version
C13_Witness ==
    /\ run.op = "ForceUp" /\ run.phase = "Idle"
    /\ run.plan[1] \in Recorded(run.before)
    /\ Orphans # {}

\* ForceDown has succeeded for a registered version that had no record
C13_WitnessDown ==
    /\ run.op = "ForceDown" /\ run.phase = "Idle"
    /\ run.plan[1] \notin Recorded(run.before)
    /\ run.before # {}
    /\ rows = run.before

\* ForceDown has failed for an unregistered version that has a record
C13_WitnessUnregistered ==
    /\ run.op = "ForceDown" /\ run.phase = "Halted" /\ run.err = ErrNotRegistered
    /\ run.failed \in Recorded(rows)
    /\ registered # <<>>

\* C14: Stats is read-only and counts what is there.  At every point of a
\* Stats run the ledger rows and the registry are what they were when the run
\* started, also with records of unregistered versions in the ledger; the
\* report of a run that ended in Idle has executed = the number of ledger
\* records, registered = Count() and pending-up = the number of registered
\* versions without a record.
C14_StatsReadOnly ==
    run.op = "Stats" =>
        /\ rows = run.before
        /\ migrations = run.registry
        /\ run.calls = <<>>
        /\ run.phase = "Idle" =>
              /\ run.stats.executed = Cardinality(rows)
              /\ run.stats.registered = Count(migrations)
              /\ run.stats.pendingUp = Cardinality(ToSet(registered) \ Recorded(rows))
              /\ run.stats.pendingDown = Cardinality(ToSet(registered) \cap Recorded(rows))
              /\ run.stats.consistent = (Recorded(rows) \subseteq ToSet(registered))

\* Stats has reported on a ledger with one record of a registered version and
\* one of an unregistered version, with one registered version pending
C14_Witness ==
    /\ run.op = "Stats" /\ run.phase = "Idle"
    /\ run.stats.executed = 2
    /\ run.stats.registered = 2
    /\ run.stats.pendingUp = 1
    /\ ~run.stats.consistent

\* C17: an ordered run is strictly sequential.  At most one step is open: the
\* calls are one ahead of the completed steps exactly while the step's Save or
\* Remove is outstanding or has failed, so the next Up()/Down() comes only
\* after the write returned success; a step counts as completed only with its
\* write in the ledger; when the write fails the run is Halted at that step,
\* naming its version, and nothing was invoked after it.
C17_StepsAreSequential ==
    run.op \in {"Up", "Down"} =>
        LET open == Len(run.calls) - Len(run.completed)
            k == Len(run.calls)
        IN  /\ open \in {0, 1}
            /\ run.completed = SubSeq(CalledVersions, 1, Len(run.completed))
            /\ \A i \in DOMAIN run.completed : run.calls[i].ok
            /\ \A v \in ToSet(run.completed) :
                  (v \in Recorded(rows)) = (run.op = "Up")
            /\ (run.phase = "Applying" /\ run.step = "invoke") => open = 0
            /\ (run.phase = "Applying" /\ run.step = "persist") => open = 1 /\ run.calls[k].ok
            /\ run.phase = "Idle" => open = 0
            /\ (run.phase = "Halted" /\ k > 0) =>
                  /\ open = 1
                  /\ run.failed = run.calls[k].version
                  /\ run.calls[k].ok => run.err = ErrConnection
                  /\ (run.op = "Up") => run.failed \notin Recorded(rows)
                  /\ (run.op = "Down") => run.failed \in Recorded(rows)

\* the Save of the second step of an Up run has failed: the run is halted with
\* one record written and the third migration not invoked
C17_Witness ==
    /\ run.op = "Up" /\ run.phase = "Halted" /\ run.err = ErrConnection
    /\ Len(run.plan) = 3 /\ run.all
    /\ Len(run.calls) = 2 /\ run.calls[2].ok
    /\ Len(run.completed) = 1
    /\ Cardinality(rows) = 1

\* the Remove of the first step of a Down run has failed
C17_WitnessDown ==
    /\ run.op = "Down" /\ run.phase = "Halted" /\ run.err = ErrConnection
    /\ Len(run.plan) = 2 /\ run.all
    /\ Len(run.calls) = 1 /\ run.calls[1].ok
    /\ rows = run.before

\* ------------------------------------- Process Exclusivity Guard (spec 4.5, 5)
\* the largest number of steps a guarded run has to take
MaxGuardSteps == 2

ErrLocked == "migrations are already running"

\* try-lock that does not look at the holder
TryLockAlways(held, name, p) == [locks |-> [held EXCEPT ![name] = p], ok |-> TRUE]

\* non-blocking acquisition of the lock file `name` by process p
TryLock(held, name, p) ==
    IF held[name] = NoHolder THEN [locks |-> [held EXCEPT ![name] = p], ok |-> TRUE]
    ELSE [locks |-> held, ok |-> FALSE]

\* release that leaves the lock file locked
UnlockKeeps(held, name, p) == held

\* release of the lock file `name` by process p
Unlock(held, name, p) ==
    IF held[name] = p THEN [held EXCEPT ![name] = NoHolder] ELSE held

ProcSettings == {IdleProc(exclusive, lockName) : exclusive \in BOOLEAN, lockName \in LockNames}

\* the phases in which a process has no run going
Ended == {"Idle", "Halted", "Locked"}

\* two processes on one host, each with its settings, none running
InitGuard ==
    /\ migrations = NewGenericRegistry
    /\ registered = <<>>
    /\ dirReadable = TRUE
    /\ dirEntries = {}
    /\ tableExists = TRUE
    /\ rows = {}
    /\ lastWrite = <<>>
    /\ run = NoRun
    /\ ret = NoCall
    /\ locks = NoLocks
    /\ procs \in [Procs -> ProcSettings]

\* process p starts a run of `todo` pending steps: with exclusive runs it tries
\* the lock first and aborts when the lock is held
GuardedStart(p, todo) ==
    LET me == procs[p]
        fresh == [IdleProc(me.exclusive, me.lockName) EXCEPT !.todo = todo]
        r == TryLock(locks, me.lockName, p)
    IN  /\ me.phase \in Ended
        /\ locks' = IF me.exclusive THEN r.locks ELSE locks
        /\ procs' = [procs EXCEPT ![p] =
                        IF ~me.exclusive THEN [fresh EXCEPT !.phase = "Reconciling"]
                        ELSE IF r.ok
                        THEN [fresh EXCEPT !.phase = "Reconciling", !.acquired = TRUE]
                        ELSE [fresh EXCEPT !.phase = "Locked", !.err = ErrLocked]]
        /\ UNCHANGED <<regVars, dirVars, dbVars, runVars, ret>>

\* the run of p loads the ledger and plans
GuardedReconcile(p, dbOk) ==
    /\ procs[p].phase = "Reconciling"
    /\ procs' = [procs EXCEPT ![p] =
                    IF ~dbOk THEN [@ EXCEPT !.phase = "Ending", !.err = ErrConnection]
                    ELSE IF @.todo = 0 THEN [@ EXCEPT !.phase = "Ending"]
                    ELSE [@ EXCEPT !.phase = "Applying"]]
    /\ UNCHANGED <<regVars, dirVars, dbVars, runVars, ret, locks>>

\* the run of p invokes the migration of its next step
GuardedInvoke(p, ok) ==
    /\ procs[p].phase = "Applying"
    /\ procs[p].step = "invoke"
    /\ procs' = [procs EXCEPT ![p] =
                    IF ok THEN [@ EXCEPT !.calls = @ + 1, !.step = "persist"]
                    ELSE [@ EXCEPT !.calls = @ + 1, !.phase = "Ending", !.err = ErrStep]]
    /\ UNCHANGED <<regVars, dirVars, dbVars, runVars, ret, locks>>

\* the run of p writes the record of its step
GuardedPersist(p, dbOk) ==
    /\ procs[p].phase = "Applying"
    /\ procs[p].step = "persist"
    /\ procs' = [procs EXCEPT ![p] =
                    IF ~dbOk THEN [@ EXCEPT !.phase = "Ending", !.err = ErrConnection]
                    ELSE [@ EXCEPT !.writes = @ + 1, !.todo = @ - 1, !.step = "invoke",
                                   !.phase = IF procs[p].todo = 1 THEN "Ending"
                                             ELSE "Applying"]]
    /\ UNCHANGED <<regVars, dirVars, dbVars, runVars, ret, locks>>

\* the run of p is over: the lock it acquired is released, the outcome reported
GuardedRelease(p) ==
    LET me == procs[p]
    IN  /\ me.phase = "Ending"
        /\ locks' = IF me.acquired THEN Unlock(locks, me.lockName, p) ELSE locks
        /\ procs' = [procs EXCEPT ![p].phase = IF me.err = NoError THEN "Idle" ELSE "Halted"]
        /\ UNCHANGED <<regVars, dirVars, dbVars, runVars, ret>>

\* what a process does once its run has started
GuardedProgress(p) ==
    \/ \E dbOk \in BOOLEAN : GuardedReconcile(p, dbOk)
    \/ \E ok \in BOOLEAN : GuardedInvoke(p, ok)
    \/ \E dbOk \in BOOLEAN : GuardedPersist(p, dbOk)
    \/ GuardedRelease(p)

NextGuard ==
    \/ \E p \in Procs, todo \in 0..MaxGuardSteps : GuardedStart(p, todo)
    \/ \E p \in Procs, dbOk \in BOOLEAN : GuardedReconcile(p, dbOk)
    \/ \E p \in Procs, ok \in BOOLEAN : GuardedInvoke(p, ok)
    \/ \E p \in Procs, dbOk \in BOOLEAN : GuardedPersist(p, dbOk)
    \/ \E p \in Procs : GuardedRelease(p)

SpecGuard == InitGuard /\ [][NextGuard]_vars

\* a started run goes on: its calls return and the process is scheduled
SpecGuardFair == SpecGuard /\ \A p \in Procs : WF_vars(GuardedProgress(p))

\* ------------------------------------------------------------ claims: guard
Holds(p) == locks[procs[p].lockName] = p

InRun(p) == procs[p].phase \notin Ended

\* C15: two processes with exclusive runs and the same lock name never have a
\* run going at the same time; a process with exclusive runs has a run going
\* only while it holds the lock; a process that found the lock held is in the
\* Locked state with the already-running error, holds nothing, and has invoked
\* no migration and written nothing.
C15_ExclusiveRunsExclude ==
    /\ \A p, q \in Procs :
          (/\ p # q
           /\ procs[p].exclusive /\ procs[q].exclusive
           /\ procs[p].lockName = procs[q].lockName) => ~(InRun(p) /\ InRun(q))
    /\ \A p \in Procs :
          /\ (procs[p].exclusive /\ InRun(p)) => Holds(p)
          /\ procs[p].phase = "Locked" =>
                /\ procs[p].exclusive
                /\ procs[p].err = ErrLocked
                /\ ~procs[p].acquired
                /\ ~Holds(p)
                /\ procs[p].calls = 0
                /\ procs[p].writes = 0

\* one process is in the middle of its run, holding the lock, and the other
\* one has been turned away
C15_Witness ==
    /\ procs["p1"].phase = "Applying" /\ procs["p1"].calls = 1 /\ Holds("p1")
    /\ procs["p2"].phase = "Locked"
    /\ procs["p1"].lockName = procs["p2"].lockName

\* C16: a process whose run is over holds no lock, whatever the outcome (Idle
\* after zero or more steps, Halted after a failed migration or a storage
\* failure), so a new run can take the lock; and a process that holds the
\* lock eventually holds it no more.
C16_LockReleasedOnEveryExit ==
    /\ [](\A p \in Procs : procs[p].phase \in Ended => ~Holds(p))
    /\ \A p \in Procs : Holds(p) ~> ~Holds(p)

\* a run that had acquired the lock was halted by a failing migration, and
\* the other process has acquired the same lock since
C16_Witness ==
    /\ procs["p1"].phase = "Halted" /\ procs["p1"].acquired /\ procs["p1"].err = ErrStep
    /\ procs["p2"].lockName = procs["p1"].lockName
    /\ Holds("p2") /\ InRun("p2")

\* a run that had acquired the lock ended after a storage failure
C16_WitnessStorage ==
    /\ procs["p1"].phase = "Halted" /\ procs["p1"].acquired
    /\ procs["p1"].err = ErrConnection
    /\ locks = NoLocks

\* a run that had acquired the lock ended in Idle without taking a step
C16_WitnessNoStep ==
    /\ procs["p1"].phase = "Idle" /\ procs["p1"].acquired
    /\ procs["p1"].calls = 0
    /\ locks = NoLocks
====
